---- MODULE Spec2Model ----
(***************************************************************************)
(* State-machine model of the resolution core of auto-dungeon-master:      *)
(* ActionQueue, StateManager, ResolutionEngine, RulesEngine.execute_roll   *)
(* and the GameController turn loop.                                       *)
(*                                                                         *)
(* Specifications                                                          *)
(*   Spec       the GameController turn loop (one step per loop iteration) *)
(*   FairSpec   Spec with weak fairness on the controller's own steps      *)
(*   QueueSpec  the ActionQueue API driven by arbitrary calls              *)
(*   StateSpec  StateManager.apply_change driven by arbitrary changes      *)
(*   EngineSpec ResolutionEngine.execute_plan driven by arbitrary plans    *)
(*   RulesSpec  the RulesEngine API driven by arbitrary calls              *)
(*   ClientSpec OllamaClient.generate, one step per attempt                *)
(*   GraphSpec  the WorldGraph API driven by arbitrary calls               *)
(***************************************************************************)
EXTENDS Integers, Sequences, FiniteSets, TLC

VARIABLES
    _queues,            \* ActionQueue._queues: priority -> deque of Action
    _priorities,        \* ActionQueue._priorities: active priorities, descending
    narration_buffer,   \* GameController.narration_buffer
    turn_based,         \* GameController.turn_based
    gs,                 \* StateManager._state (the GameState)
    pc,                 \* position of the controller inside process_player_input
    iterations,         \* local `iterations` of the running _process_queue (0 outside)
    enemies,            \* rest of the list iterated by _process_enemy_turns
    inputs,             \* number of process_player_input calls made so far
    output,             \* value returned by the last process_player_input
    last,               \* history: what the last controller step did
    ret,                \* harness: value returned by the last API call
    arrival,            \* history: the actions that entered the queue and were not
                        \* dequeued yet, in the order they entered
    plan_in,            \* harness: the plan handed to execute_plan
    resolution,         \* harness: the Resolution returned by execute_plan
    loud,               \* number of Oracle answers so far that end in narration
    uuids,              \* number of ids drawn by _enqueue_action so far
    oracle              \* the Oracle's mood in this session: "plain" or "free"

qvars == <<_queues, _priorities>>
cvars == <<narration_buffer, turn_based, gs, pc, iterations, enemies, inputs, output, last>>
hvars == <<ret, plan_in, resolution, oracle>>
vars  == <<_queues, _priorities, narration_buffer, turn_based, gs, pc, iterations,
           enemies, inputs, output, last, ret, arrival, plan_in, resolution, loud, uuids, oracle>>

(***************************************************************************)
(* Python values.  Every value that the code inspects with isinstance, or  *)
(* that may be None, carries its type in field t.                          *)
(***************************************************************************)
None == [t |-> "none"]
IntV(n) == [t |-> "int", v |-> n]
StrV(s) == [t |-> "str", v |-> s]
ListV(l) == [t |-> "list", v |-> l]
DictV(d) == [t |-> "dict", v |-> d]

Max(a, b) == IF a >= b THEN a ELSE b
Min(a, b) == IF a <= b THEN a ELSE b

(***************************************************************************)
(* models.actions.Action                                                   *)
(***************************************************************************)
Action(id, owner_id, intent_text, priority) ==
    [id |-> id, owner_id |-> owner_id, intent_text |-> intent_text,
     priority |-> priority, plan |-> None, resolution |-> None]

(***************************************************************************)
(* core.action_queue.ActionQueue.  A queue value q is the pair of the two  *)
(* attributes, [queues, priorities].                                       *)
(***************************************************************************)
ActionQueue == [queues |-> <<>>, priorities |-> <<>>]

\* mutant of sorted_reverse: sorted(keys) without reverse=True
RECURSIVE sorted_ascending(_)
sorted_ascending(keys) ==
    IF keys = {} THEN <<>>
    ELSE LET m == CHOOSE k \in keys : \A j \in keys : k <= j
         IN  <<m>> \o sorted_ascending(keys \ {m})

\* sorted(keys, reverse=True)
RECURSIVE sorted_reverse(_)
sorted_reverse(keys) ==
    IF keys = {} THEN <<>>
    ELSE LET m == CHOOSE k \in keys : \A j \in keys : j <= k
         IN  <<m>> \o sorted_reverse(keys \ {m})

enqueue(q, action) ==
    LET p  == action.priority
        qs == IF p \notin DOMAIN q.queues
              THEN q.queues @@ (p :> <<>>)
              ELSE q.queues
        ps == IF p \notin DOMAIN q.queues
              THEN sorted_reverse(DOMAIN qs)
              ELSE q.priorities
    IN  [queues |-> [qs EXCEPT ![p] = Append(@, action)], priorities |-> ps]

\* mutant of the reaction tier: the priority the action carried is kept
enqueue_reaction_keep(q, action) == enqueue(q, action)

REACTION_PRIORITY == 100

enqueue_reaction(q, action) ==
    enqueue(q, [action EXCEPT !.priority = REACTION_PRIORITY])

\* index in q.priorities of the first non-empty level at or after i, 0 if none
RECURSIVE first_nonempty(_, _)
first_nonempty(q, i) ==
    IF i > Len(q.priorities) THEN 0
    ELSE IF Len(q.queues[q.priorities[i]]) > 0 THEN i
    ELSE first_nonempty(q, i + 1)

\* mutant of dequeue: the action returned stays in the queue
dequeue_kept(q) ==
    LET i == first_nonempty(q, 1)
    IN  IF i = 0 THEN [ret |-> None, q |-> q]
        ELSE [ret |-> Head(q.queues[q.priorities[i]]), q |-> q]

\* dequeue returns the pair [ret, q]
dequeue(q) ==
    LET i == first_nonempty(q, 1)
    IN  IF i = 0 THEN [ret |-> None, q |-> q]
        ELSE LET p == q.priorities[i]
             IN  [ret |-> Head(q.queues[p]),
                  q   |-> [q EXCEPT !.queues[p] = Tail(@)]]

is_empty(q) == \A p \in DOMAIN q.queues : Len(q.queues[p]) = 0

\* mutant of peek: the newest action of the deque, queue[-1]
peek_newest(q) ==
    LET i == first_nonempty(q, 1)
    IN  IF i = 0 THEN None
        ELSE q.queues[q.priorities[i]][Len(q.queues[q.priorities[i]])]

peek(q) ==
    LET i == first_nonempty(q, 1)
    IN  IF i = 0 THEN None ELSE Head(q.queues[q.priorities[i]])

\* arrival without its first element equal to a
RECURSIVE RemoveFirst(_, _)
RemoveFirst(s, a) ==
    IF s = <<>> THEN <<>>
    ELSE IF Head(s) = a THEN Tail(s)
    ELSE <<Head(s)>> \o RemoveFirst(Tail(s), a)

\* a reaction as it enters the queue: described by the Oracle, at the
\* reaction priority
Described(reaction) ==
    [reaction EXCEPT !.intent_text = "reaction", !.priority = REACTION_PRIORITY]

\* the queue object held in the two variables
Q == [queues |-> _queues, priorities |-> _priorities]
SetQ(q) == _queues' = q.queues /\ _priorities' = q.priorities

\* number of actions held
RECURSIVE SumLen(_, _)
SumLen(f, S) ==
    IF S = {} THEN 0
    ELSE LET k == CHOOSE x \in S : TRUE IN Len(f[k]) + SumLen(f, S \ {k})
qsize(q) == SumLen(q.queues, DOMAIN q.queues)

\* the order in which repeated dequeue calls return the held actions
RECURSIVE DrainOrder(_)
DrainOrder(q) ==
    LET d == dequeue(q)
    IN  IF d.ret = None THEN <<>> ELSE <<d.ret>> \o DrainOrder(d.q)

(***************************************************************************)
(* models.state: objects are ObjV(fields), fields a record from attribute  *)
(* names to values.  GameState has the attributes player and location.     *)
(***************************************************************************)
ObjV(fields) == [t |-> "obj", v |-> fields]

\* Python truthiness of a value
Truthy(x) ==
    CASE x.t = "none" -> FALSE
      [] x.t = "int"  -> x.v # 0
      [] x.t = "list" -> Len(x.v) > 0
      [] x.t = "str"  -> x.v # ""
      [] x.t = "dict" -> DOMAIN x.v # {}
      [] OTHER        -> TRUE

(***************************************************************************)
(* core.state_manager.StateManager.get_entity.  The result is              *)
(* [err, ref]: err is TRUE when the search raises, ref is None or the      *)
(* place of the object found, [place, k].                                  *)
(***************************************************************************)
Ref(place, k) == [t |-> "ref", place |-> place, k |-> k]
Found(ref) == [err |-> FALSE, ref |-> ref]
SearchRaised == [err |-> TRUE, ref |-> None]

\* for x in l: [if isinstance(x, str): continue]; if x.id == entity_id: return x
\* result: 0 not found, k > 0 found at k, -1 raised
RECURSIVE scan(_, _, _, _)
scan(l, i, entity_id, skip_str) ==
    IF i > Len(l) THEN 0
    ELSE IF skip_str /\ l[i].t = "str" THEN scan(l, i + 1, entity_id, skip_str)
    ELSE IF l[i].t # "obj" \/ "id" \notin DOMAIN l[i].v THEN -1
    ELSE IF l[i].v.id = StrV(entity_id) THEN i
    ELSE scan(l, i + 1, entity_id, skip_str)

get_entity(state, entity_id) ==
    LET inv == state.player.v.inventory
        loc == state.location
        occ == loc.v.occupants
        its == loc.v.items
        \* lines 57-61: the items of the location
        in_items(kt) ==
            IF kt = -1 THEN SearchRaised
            ELSE IF kt > 0 THEN Found(Ref("item", kt))
            ELSE Found(None)
        \* lines 48-55: the occupants of the location, then its items
        in_occupants(ko) ==
            IF ko = -1 THEN SearchRaised
            ELSE IF ko > 0 THEN Found(Ref("occupant", ko))
            ELSE in_items(IF ~Truthy(its) THEN 0
                          ELSE IF its.t = "list" THEN scan(its.v, 1, entity_id, TRUE)
                          ELSE -1)
        \* lines 37-46: the inventory, then the location itself
        in_inventory(ki) ==
            IF ki = -1 THEN SearchRaised
            ELSE IF ki > 0 THEN Found(Ref("inventory", ki))
            ELSE IF loc.v.id = StrV(entity_id) THEN Found(Ref("location", 0))
            ELSE in_occupants(IF ~Truthy(occ) THEN 0
                              ELSE IF occ.t = "list" THEN scan(occ.v, 1, entity_id, TRUE)
                              ELSE -1)
    IN  IF state.player.v.id = StrV(entity_id) THEN Found(Ref("player", 0))
        ELSE in_inventory(IF inv.t = "list" THEN scan(inv.v, 1, entity_id, FALSE) ELSE -1)

\* the object a reference denotes, and the state with that object replaced
\* (the code mutates the object in place)
Deref(state, ref) ==
    CASE ref.place = "player"    -> state.player
      [] ref.place = "inventory" -> state.player.v.inventory.v[ref.k]
      [] ref.place = "location"  -> state.location
      [] ref.place = "occupant"  -> state.location.v.occupants.v[ref.k]
      [] ref.place = "item"      -> state.location.v.items.v[ref.k]

Assign(state, ref, obj) ==
    CASE ref.place = "player"    -> [state EXCEPT !.player = obj]
      [] ref.place = "inventory" -> [state EXCEPT !.player.v.inventory.v[ref.k] = obj]
      [] ref.place = "location"  -> [state EXCEPT !.location = obj]
      [] ref.place = "occupant"  -> [state EXCEPT !.location.v.occupants.v[ref.k] = obj]
      [] ref.place = "item"      -> [state EXCEPT !.location.v.items.v[ref.k] = obj]

(***************************************************************************)
(* models.actions.StateChange.  attribute is the dot path already split:   *)
(* "attributes.STR" is <<"attributes", "STR">>.                            *)
(***************************************************************************)
StateChange(target_id, attribute, operation, value) ==
    [target_id |-> target_id, attribute |-> attribute,
     operation |-> operation, value |-> value]

(***************************************************************************)
(* StateManager._mutate_target.  Results are [err, val]: err is "" or the  *)
(* exception raised, val the parent object after the mutation.             *)
(***************************************************************************)
Ok(val) == [err |-> "", val |-> val]
Raise(e) == [err |-> e, val |-> None]

IsMapping(x) == x.t = "dict"
HasKey(x, key) == x.t \in {"dict", "obj"} /\ key \in DOMAIN x.v

\* parent.get(key) for a dict, getattr(parent, key) otherwise
Lookup(parent, key) ==
    IF IsMapping(parent)
    THEN IF HasKey(parent, key) THEN Ok(parent.v[key]) ELSE Ok(None)
    ELSE IF HasKey(parent, key) THEN Ok(parent.v[key]) ELSE Raise("AttributeError")

\* parent[key] = value for a dict, setattr(parent, key, value) otherwise
Store(parent, key, value) ==
    IF HasKey(parent, key)
    THEN [parent EXCEPT !.v[key] = value]
    ELSE [parent EXCEPT !.v = (key :> value) @@ @]

IsNumeric(x) == x.t = "int"

\* mutant of list_remove: every equal element goes
RECURSIVE list_remove_all(_, _)
list_remove_all(l, x) ==
    IF l = <<>> THEN <<>>
    ELSE IF Head(l) = x THEN list_remove_all(Tail(l), x)
    ELSE <<Head(l)>> \o list_remove_all(Tail(l), x)

\* current_value.remove(value): the first equal element goes
RECURSIVE list_remove(_, _)
list_remove(l, x) ==
    IF l = <<>> THEN <<>>
    ELSE IF Head(l) = x THEN Tail(l)
    ELSE <<Head(l)>> \o list_remove(Tail(l), x)

\* mutant of Operate: an unknown operation leaves the value as it is
Operate_lenient(current_value, operation, value) ==
    CASE operation = "set" -> Ok(value)
      [] operation = "add" ->
            IF IsNumeric(current_value)
            THEN IF IsNumeric(value) THEN Ok(IntV(current_value.v + value.v))
                 ELSE Raise("TypeError")
            ELSE Raise("ValueError")
      [] operation = "remove" ->
            IF IsNumeric(current_value)
            THEN IF IsNumeric(value) THEN Ok(IntV(current_value.v - value.v))
                 ELSE Raise("TypeError")
            ELSE IF current_value.t = "list"
            THEN Ok(ListV(list_remove(current_value.v, value)))
            ELSE Raise("ValueError")
      [] operation = "append" ->
            IF current_value.t = "list"
            THEN Ok(ListV(Append(current_value.v, value)))
            ELSE Raise("ValueError")
      [] OTHER -> Ok(current_value)

\* the match statement: the new value of the final attribute
Operate(current_value, operation, value) ==
    CASE operation = "set" -> Ok(value)
      [] operation = "add" ->
            IF IsNumeric(current_value)
            THEN IF IsNumeric(value) THEN Ok(IntV(current_value.v + value.v))
                 ELSE Raise("TypeError")
            ELSE Raise("ValueError")
      [] operation = "remove" ->
            IF IsNumeric(current_value)
            THEN IF IsNumeric(value) THEN Ok(IntV(current_value.v - value.v))
                 ELSE Raise("TypeError")
            ELSE IF current_value.t = "list"
            THEN Ok(ListV(list_remove(current_value.v, value)))
            ELSE Raise("ValueError")
      [] operation = "append" ->
            IF current_value.t = "list"
            THEN Ok(ListV(Append(current_value.v, value)))
            ELSE Raise("ValueError")
      [] OTHER -> Raise("ValueError")

RECURSIVE _mutate_target(_, _, _)
_mutate_target(parent, attr_path, change) ==
    IF Len(attr_path) > 1
    THEN LET next == Lookup(parent, Head(attr_path))
         IN  IF next.err # "" THEN Raise(next.err)
             ELSE IF next.val = None THEN Raise("AttributeError")
             ELSE LET sub == _mutate_target(next.val, Tail(attr_path), change)
                  IN  IF sub.err # "" THEN Raise(sub.err)
                      ELSE Ok(Store(parent, Head(attr_path), sub.val))
    ELSE LET final_key == Head(attr_path)
             current   == Lookup(parent, final_key)
         IN  IF current.err # "" THEN Raise(current.err)
             ELSE LET new == Operate(current.val, change.operation, change.value)
                  IN  IF new.err # "" THEN Raise(new.err)
                      ELSE Ok(Store(parent, final_key, new.val))

\* mutant of apply_change: an unresolved target raises
apply_change_strict(state, change) ==
    LET written(ref, m) ==
            IF m.err # "" THEN [err |-> m.err, state |-> state]
            ELSE [err |-> "", state |-> Assign(state, ref, m.val)]
        resolved(target) ==
            IF target.err \/ target.ref = None
            THEN [err |-> "LookupError", state |-> state]
            ELSE written(target.ref,
                         _mutate_target(Deref(state, target.ref), change.attribute, change))
    IN  resolved(get_entity(state, change.target_id))

\* StateManager.apply_change: [err, state]
apply_change(state, change) ==
    LET \* lines 98-103: the mutation raised, or the target is rewritten
        written(ref, m) ==
            IF m.err # "" THEN [err |-> m.err, state |-> state]
            ELSE [err |-> "", state |-> Assign(state, ref, m.val)]
        \* lines 94-99 once get_entity has returned `target`
        resolved(target) ==
            IF target.err THEN [err |-> "AttributeError", state |-> state]
            ELSE IF target.ref = None THEN [err |-> "", state |-> state]
            ELSE written(target.ref,
                         _mutate_target(Deref(state, target.ref), change.attribute, change))
    IN  resolved(get_entity(state, change.target_id))

(***************************************************************************)
(* core.rules_engine.RulesEngine.  A dice formula is the string as a       *)
(* sequence of characters.  The random source is a sequence rnd of die     *)
(* throws; a die of s sides shows ((throw - 1) % s) + 1.  Results carry    *)
(* err ("" or the exception) and rest, the unused throws.                  *)
(***************************************************************************)
Digits == {"0", "1", "2", "3", "4", "5", "6", "7", "8", "9"}
Letters == {"d", "x", "S", "T", "R", "s", "t", "r", "D", "E", "X"}
WordChars == Digits \cup Letters \cup {"_"}

DigitVal(c) ==
    CASE c = "0" -> 0 [] c = "1" -> 1 [] c = "2" -> 2 [] c = "3" -> 3
      [] c = "4" -> 4 [] c = "5" -> 5 [] c = "6" -> 6 [] c = "7" -> 7
      [] c = "8" -> 8 [] c = "9" -> 9

\* int(s) of a string of digits
RECURSIVE int_of(_)
int_of(cs) ==
    IF cs = <<>> THEN 0
    ELSE 10 * int_of(SubSeq(cs, 1, Len(cs) - 1)) + DigitVal(cs[Len(cs)])

\* str.upper() on one character
Upper1(c) ==
    CASE c = "s" -> "S" [] c = "t" -> "T" [] c = "r" -> "R"
      [] c = "d" -> "D" [] c = "x" -> "X" [] OTHER -> c
upper(cs) == [i \in 1..Len(cs) |-> Upper1(cs[i])]

\* str.strip()
RECURSIVE lstrip(_)
lstrip(cs) == IF cs # <<>> /\ Head(cs) = " " THEN lstrip(Tail(cs)) ELSE cs
RECURSIVE rstrip(_)
rstrip(cs) ==
    IF cs # <<>> /\ cs[Len(cs)] = " " THEN rstrip(SubSeq(cs, 1, Len(cs) - 1)) ELSE cs
strip(cs) == rstrip(lstrip(cs))

\* length of the longest prefix of cs, from position i, made of digits
RECURSIVE digit_run(_, _)
digit_run(cs, i) ==
    IF i <= Len(cs) /\ cs[i] \in Digits THEN 1 + digit_run(cs, i + 1) ELSE 0

isdigit(cs) == cs # <<>> /\ \A i \in 1..Len(cs) : cs[i] \in Digits

\* mutant of fullmatch: the number of dice may be left out, r"(\d*)d(\d+)..."
fullmatch_lax(formula) ==
    LET no == [ok |-> FALSE, num_dice |-> 0, die_sides |-> 0, modifier_str |-> <<>>]
        groups(cs, n1, n2, m) ==
            IF n1 + 1 > Len(cs) \/ cs[n1 + 1] # "d" \/ n2 = 0 THEN no
            ELSE IF m # <<>> /\ ~(/\ Len(m) >= 2
                                  /\ m[1] \in {"+", "-"}
                                  /\ \A i \in 2..Len(m) : m[i] \in WordChars) THEN no
            ELSE [ok |-> TRUE,
                  num_dice |-> int_of(SubSeq(cs, 1, n1)),
                  die_sides |-> int_of(SubSeq(cs, n1 + 2, n1 + n2 + 1)),
                  modifier_str |-> m]
        second(cs, n1, n2) == groups(cs, n1, n2, SubSeq(cs, n1 + n2 + 2, Len(cs)))
        first(cs, n1) == second(cs, n1, digit_run(cs, n1 + 2))
        stripped(cs) == first(cs, digit_run(cs, 1))
    IN  stripped(strip(formula))

\* re.fullmatch(r"(\d+)d(\d+)([+-]\w+)?", formula.strip()):
\* [ok, num_dice, die_sides, modifier_str], modifier_str <<>> when absent
fullmatch(formula) ==
    LET no == [ok |-> FALSE, num_dice |-> 0, die_sides |-> 0, modifier_str |-> <<>>]
        \* cs: the stripped string; n1, n2: the lengths of the two digit groups;
        \* m: what follows them
        groups(cs, n1, n2, m) ==
            IF n1 = 0 \/ n1 + 1 > Len(cs) \/ cs[n1 + 1] # "d" \/ n2 = 0 THEN no
            ELSE IF m # <<>> /\ ~(/\ Len(m) >= 2
                                  /\ m[1] \in {"+", "-"}
                                  /\ \A i \in 2..Len(m) : m[i] \in WordChars) THEN no
            ELSE [ok |-> TRUE,
                  num_dice |-> int_of(SubSeq(cs, 1, n1)),
                  die_sides |-> int_of(SubSeq(cs, n1 + 2, n1 + n2 + 1)),
                  modifier_str |-> m]
        second(cs, n1, n2) == groups(cs, n1, n2, SubSeq(cs, n1 + n2 + 2, Len(cs)))
        first(cs, n1) == second(cs, n1, digit_run(cs, n1 + 2))
        stripped(cs) == first(cs, digit_run(cs, 1))
    IN  stripped(strip(formula))

\* mutant of calculate_modifier: the quotient is rounded toward zero
calculate_modifier_truncating(attribute_value) ==
    IF attribute_value >= 10 THEN (attribute_value - 10) \div 2
    ELSE 0 - ((10 - attribute_value) \div 2)

\* calculate_modifier: (attribute_value - 10) // 2, floor division
calculate_modifier(attribute_value) == (attribute_value - 10) \div 2

\* mutant of throw: a die shows 0 .. die_sides - 1
RECURSIVE throw_zero_based(_, _, _)
throw_zero_based(num_dice, die_sides, rnd) ==
    IF num_dice = 0 THEN [err |-> "", total |-> 0, rest |-> rnd]
    ELSE IF die_sides < 1 THEN [err |-> "ValueError", total |-> 0, rest |-> rnd]
    ELSE LET more == throw_zero_based(num_dice - 1, die_sides, Tail(rnd))
         IN  [more EXCEPT !.total = @ + ((Head(rnd) - 1) % die_sides)]

\* for _ in range(num_dice): total += random.randint(1, die_sides)
RECURSIVE throw(_, _, _)
throw(num_dice, die_sides, rnd) ==
    IF num_dice = 0 THEN [err |-> "", total |-> 0, rest |-> rnd]
    ELSE IF die_sides < 1 THEN [err |-> "ValueError", total |-> 0, rest |-> rnd]
    ELSE LET more == throw(num_dice - 1, die_sides, Tail(rnd))
         IN  [more EXCEPT !.total = @ + ((Head(rnd) - 1) % die_sides) + 1]

\* mutant of roll_dice: a name the context does not hold raises
roll_dice_strict(formula, context, rnd) ==
    LET modified(modifier_str, dice, sign, value_part, key) ==
            IF dice.err # "" THEN dice
            ELSE IF modifier_str = <<>> THEN dice
            ELSE IF isdigit(value_part)
            THEN [dice EXCEPT !.total = @ + sign * int_of(value_part)]
            ELSE IF context = None THEN [dice EXCEPT !.err = "ValueError"]
            ELSE IF key \notin DOMAIN context.v THEN [dice EXCEPT !.err = "KeyError"]
            ELSE [dice EXCEPT !.total = @ + sign * context.v[key]]
        keyed(modifier_str, dice, sign, value_part) ==
            modified(modifier_str, dice, sign, value_part, upper(value_part))
        matched(match) ==
            IF ~match.ok THEN [err |-> "ValueError", total |-> 0, rest |-> rnd]
            ELSE keyed(match.modifier_str,
                       throw(match.num_dice, match.die_sides, rnd),
                       IF match.modifier_str # <<>> /\ match.modifier_str[1] = "+"
                       THEN 1 ELSE -1,
                       Tail(match.modifier_str))
    IN  matched(fullmatch(formula))

\* roll_dice(formula, context, rnd): [err, total, rest]
roll_dice(formula, context, rnd) ==
    LET \* lines 44-72: the modifier is added to the dice already thrown
        modified(modifier_str, dice, sign, value_part, key) ==
            IF dice.err # "" THEN dice
            ELSE IF modifier_str = <<>> THEN dice
            ELSE IF isdigit(value_part)
            THEN [dice EXCEPT !.total = @ + sign * int_of(value_part)]
            ELSE IF context = None THEN [dice EXCEPT !.err = "ValueError"]
            ELSE IF key \notin DOMAIN context.v THEN dice
            ELSE [dice EXCEPT !.total = @ + sign * context.v[key]]
        keyed(modifier_str, dice, sign, value_part) ==
            modified(modifier_str, dice, sign, value_part, upper(value_part))
        \* lines 33-42 once the formula has matched
        matched(match) ==
            IF ~match.ok THEN [err |-> "ValueError", total |-> 0, rest |-> rnd]
            ELSE keyed(match.modifier_str,
                       throw(match.num_dice, match.die_sides, rnd),
                       IF match.modifier_str # <<>> /\ match.modifier_str[1] = "+"
                       THEN 1 ELSE -1,
                       Tail(match.modifier_str))
    IN  matched(fullmatch(formula))

\* mutant of roll_with_advantage: the first roll is returned
roll_with_advantage_first(formula, context, rnd) ==
    LET both(r1, r2) ==
            IF r1.err # "" THEN r1
            ELSE IF r2.err # "" THEN r2
            ELSE [r2 EXCEPT !.total = r1.total]
        again(r1) == both(r1, roll_dice(formula, context, r1.rest))
    IN  again(roll_dice(formula, context, rnd))

roll_with_advantage(formula, context, rnd) ==
    LET both(r1, r2) ==
            IF r1.err # "" THEN r1
            ELSE IF r2.err # "" THEN r2
            ELSE [r2 EXCEPT !.total = Max(r1.total, r2.total)]
        again(r1) == both(r1, roll_dice(formula, context, r1.rest))
    IN  again(roll_dice(formula, context, rnd))

roll_with_disadvantage(formula, context, rnd) ==
    LET both(r1, r2) ==
            IF r1.err # "" THEN r1
            ELSE IF r2.err # "" THEN r2
            ELSE [r2 EXCEPT !.total = Min(r1.total, r2.total)]
        again(r1) == both(r1, roll_dice(formula, context, r1.rest))
    IN  again(roll_dice(formula, context, rnd))

RollSpec(made_by, type, dice, threshold, advantage, disadvantage, outcomes, explanation) ==
    [made_by |-> made_by, type |-> type, dice |-> dice, threshold |-> threshold,
     advantage |-> advantage, disadvantage |-> disadvantage,
     outcomes |-> outcomes, explanation |-> explanation, context |-> None]

\* mutant of outcomes_get: an absent key yields the changes of the other key
outcomes_get_other(outcomes, key) ==
    IF key \in DOMAIN outcomes THEN outcomes[key]
    ELSE IF DOMAIN outcomes # {} THEN outcomes[CHOOSE k \in DOMAIN outcomes : TRUE]
    ELSE <<>>

\* spec.outcomes.get(key, [])
outcomes_get(outcomes, key) ==
    IF key \in DOMAIN outcomes THEN outcomes[key] ELSE <<>>

\* mutant of the outcome test: meeting the threshold is not enough
MeetsThreshold_strict(total, threshold) == total > threshold

MeetsThreshold(total, threshold) == total >= threshold

\* mutant of execute_roll: advantage is not cancelled by disadvantage
execute_roll_advantage_wins(spec, rnd) ==
    LET has_adv == spec.advantage
        has_dis == spec.disadvantage /\ ~spec.advantage
        judged(roll, outcome) ==
            [err |-> roll.err,
             rest |-> roll.rest,
             result |-> [spec |-> spec, result |-> roll.total, outcome |-> outcome,
                         state_changes |-> outcomes_get(spec.outcomes, outcome)]]
        rolled(roll) ==
            judged(roll, IF MeetsThreshold(roll.total, spec.threshold)
                         THEN "SUCCESS" ELSE "FAILURE")
    IN  rolled(IF has_adv THEN roll_with_advantage(spec.dice, spec.context, rnd)
               ELSE IF has_dis THEN roll_with_disadvantage(spec.dice, spec.context, rnd)
               ELSE roll_dice(spec.dice, spec.context, rnd))

\* execute_roll(spec, rnd): [err, result, rest], result the RollResult
execute_roll(spec, rnd) ==
    LET has_adv == spec.advantage /\ ~spec.disadvantage
        has_dis == spec.disadvantage /\ ~spec.advantage
        \* lines 104-121 once the dice have been rolled
        judged(roll, outcome) ==
            [err |-> roll.err,
             rest |-> roll.rest,
             result |-> [spec |-> spec, result |-> roll.total, outcome |-> outcome,
                         state_changes |-> outcomes_get(spec.outcomes, outcome)]]
        rolled(roll) ==
            judged(roll, IF MeetsThreshold(roll.total, spec.threshold)
                         THEN "SUCCESS" ELSE "FAILURE")
    IN  rolled(IF has_adv THEN roll_with_advantage(spec.dice, spec.context, rnd)
               ELSE IF has_dis THEN roll_with_disadvantage(spec.dice, spec.context, rnd)
               ELSE roll_dice(spec.dice, spec.context, rnd))

(***************************************************************************)
(* models.actions.ActionPlan and Resolution                                *)
(***************************************************************************)
ActionPlan(action_type, actor_id, required_rolls, conditional_rolls, potential_reactions, on_success, on_failure) ==
    [t |-> "plan", action_type |-> action_type, actor_id |-> actor_id,
     required_rolls |-> required_rolls, conditional_rolls |-> conditional_rolls,
     potential_reactions |-> potential_reactions,
     on_success |-> on_success, on_failure |-> on_failure]

Resolution(action_plan) ==
    [t |-> "resolution", action_plan |-> action_plan, status |-> "PENDING",
     roll_results |-> <<>>, pending_state_changes |-> <<>>,
     narration_fragments |-> <<>>, triggered_reactions |-> <<>>]

\* RollResult.success
success(result) == result.outcome = "SUCCESS"

(***************************************************************************)
(* core.resolution_engine.ResolutionEngine                                 *)
(***************************************************************************)
\* _narrate_roll: the fragment of one roll
_narrate_roll(result) ==
    [t |-> "roll", outcome |-> result.outcome, reason |-> result.spec.explanation,
     total |-> result.result, vs |-> result.spec.threshold]

\* mutant of the splice: the conditional rolls are inserted twice
insert_after_doubled(all_rolls, roll_index, conditional) ==
    SubSeq(all_rolls, 1, roll_index + 1) \o conditional \o conditional
        \o SubSeq(all_rolls, roll_index + 2, Len(all_rolls))

\* for i, cond_roll in enumerate(conditional): all_rolls.insert(roll_index + 1 + i, cond_roll)
insert_after(all_rolls, roll_index, conditional) ==
    SubSeq(all_rolls, 1, roll_index + 1) \o conditional
        \o SubSeq(all_rolls, roll_index + 2, Len(all_rolls))

\* the key under which the conditional rolls of the roll at roll_index of the
\* working list are looked up
ConditionalKey(roll_index) == roll_index

\* the while loop of execute_plan from roll_index on (0-based, as in the code):
\* [err, roll_results, narration_fragments, rest]
RECURSIVE run_rolls(_, _, _, _, _, _)
run_rolls(plan, all_rolls, roll_index, roll_results, fragments, rnd) ==
    IF ~(roll_index < Len(all_rolls))
    THEN [err |-> "", roll_results |-> roll_results,
          narration_fragments |-> fragments, rest |-> rnd]
    ELSE LET roll_spec == all_rolls[roll_index + 1]
             key == ConditionalKey(roll_index)
             \* lines 24-41 once execute_roll has returned r
             rolled(r) ==
                 IF r.err # ""
                 THEN [err |-> r.err, roll_results |-> roll_results,
                       narration_fragments |-> fragments, rest |-> r.rest]
                 ELSE run_rolls(plan,
                                IF success(r.result) /\ key \in DOMAIN plan.conditional_rolls
                                THEN insert_after(all_rolls, roll_index,
                                                  plan.conditional_rolls[key])
                                ELSE all_rolls,
                                roll_index + 1,
                                Append(roll_results, r.result),
                                Append(fragments, _narrate_roll(r.result)), r.rest)
         IN  rolled(execute_roll(roll_spec, rnd))

\* mutant of the primary types: a damage roll gates the verdict too
PrimaryTypes_all == {"ATTACK", "CHECK", "SAVE", "CONTEST", "DAMAGE"}

PrimaryTypes == {"ATTACK", "CHECK", "SAVE", "CONTEST"}

\* mutant of the verdict: a plan without rolls does not succeed
_evaluate_success_rolled(roll_results) ==
    /\ roll_results # <<>>
    /\ \A i \in 1..Len(roll_results) :
           roll_results[i].spec.type \in PrimaryTypes => success(roll_results[i])

_evaluate_success(roll_results) ==
    IF roll_results = <<>> THEN TRUE
    ELSE \A i \in 1..Len(roll_results) :
             roll_results[i].spec.type \in PrimaryTypes => success(roll_results[i])

\* Entity.has_reaction_to(action_type, success): the entity's capability
has_reaction_to(entity, action_type, succeeded) ==
    /\ entity.t = "obj"
    /\ "reacts_to" \in DOMAIN entity.v
    /\ entity.v.reacts_to = StrV(action_type)

\* Entity.get_reaction_intent(action_type)
get_reaction_intent(entity, action_type) == "react"

\* mutant of _check_reactions: an id that get_entity does not find raises
RECURSIVE _check_reactions_strict(_, _, _, _)
_check_reactions_strict(state, plan, succeeded, i) ==
    IF i > Len(plan.potential_reactions) THEN [err |-> "", reactions |-> <<>>]
    ELSE LET entity_id == plan.potential_reactions[i]
             looked(found, more) ==
                 IF found.err THEN [err |-> "AttributeError", reactions |-> <<>>]
                 ELSE IF found.ref = None THEN [err |-> "LookupError", reactions |-> <<>>]
                 ELSE IF has_reaction_to(Deref(state, found.ref), plan.action_type, succeeded)
                 THEN [more EXCEPT !.reactions =
                          <<Action(<<"reaction", entity_id, plan.actor_id>>, entity_id,
                                   get_reaction_intent(Deref(state, found.ref),
                                                       plan.action_type),
                                   REACTION_PRIORITY)>> \o @]
                 ELSE more
         IN  looked(get_entity(state, entity_id),
                    _check_reactions_strict(state, plan, succeeded, i + 1))

\* _check_reactions from position i of potential_reactions: [err, reactions]
RECURSIVE _check_reactions(_, _, _, _)
_check_reactions(state, plan, succeeded, i) ==
    IF i > Len(plan.potential_reactions) THEN [err |-> "", reactions |-> <<>>]
    ELSE LET entity_id == plan.potential_reactions[i]
             \* lines 80-88 once get_entity has returned `found`
             looked(found, more) ==
                 IF found.err THEN [err |-> "AttributeError", reactions |-> <<>>]
                 ELSE IF /\ found.ref # None
                         /\ has_reaction_to(Deref(state, found.ref),
                                            plan.action_type, succeeded)
                 THEN [more EXCEPT !.reactions =
                          <<Action(<<"reaction", entity_id, plan.actor_id>>, entity_id,
                                   get_reaction_intent(Deref(state, found.ref),
                                                       plan.action_type),
                                   REACTION_PRIORITY)>> \o @]
                 ELSE more
         IN  looked(get_entity(state, entity_id),
                    _check_reactions(state, plan, succeeded, i + 1))

\* the state changes the roll results carry, in roll order
RECURSIVE RollChanges(_)
RollChanges(roll_results) ==
    IF roll_results = <<>> THEN <<>>
    ELSE Head(roll_results).state_changes \o RollChanges(Tail(roll_results))

\* mutant of execute_plan: the changes of the roll results are queued
\* ahead of the plan's
execute_plan_roll_changes(res, state, rnd) ==
    LET plan == res.action_plan
        pending(rolled, overall) ==
            RollChanges(rolled.roll_results)
                \o (IF overall THEN plan.on_success ELSE plan.on_failure)
        finished(rolled, partial, overall, reacts) ==
            IF rolled.err # "" THEN [err |-> rolled.err, resolution |-> partial]
            ELSE IF reacts.err # ""
            THEN [err |-> reacts.err,
                  resolution |-> [partial EXCEPT !.pending_state_changes =
                                     pending(rolled, overall)]]
            ELSE [err |-> "",
                  resolution |-> [partial EXCEPT
                                     !.pending_state_changes = pending(rolled, overall),
                                     !.triggered_reactions = reacts.reactions,
                                     !.status = "RESOLVED"]]
        evaluated(rolled, partial, overall) ==
            finished(rolled, partial, overall, _check_reactions(state, plan, overall, 1))
        rolled_all(rolled) ==
            evaluated(rolled,
                      [res EXCEPT !.status = "AWAITING_ROLL",
                                  !.roll_results = rolled.roll_results,
                                  !.narration_fragments = rolled.narration_fragments],
                      _evaluate_success(rolled.roll_results))
    IN  rolled_all(run_rolls(plan, plan.required_rolls, 0, res.roll_results,
                             res.narration_fragments, rnd))

\* execute_plan(resolution) on the state `state` with the throws rnd:
\* [err, resolution]
execute_plan(res, state, rnd) ==
    LET plan == res.action_plan
        \* lines 43-58: outcome, state changes, reactions
        finished(rolled, partial, overall, reacts) ==
            IF rolled.err # "" THEN [err |-> rolled.err, resolution |-> partial]
            ELSE IF reacts.err # ""
            THEN [err |-> reacts.err,
                  resolution |-> [partial EXCEPT !.pending_state_changes =
                                     IF overall THEN plan.on_success ELSE plan.on_failure]]
            ELSE [err |-> "",
                  resolution |-> [partial EXCEPT
                                     !.pending_state_changes =
                                         IF overall THEN plan.on_success ELSE plan.on_failure,
                                     !.triggered_reactions = reacts.reactions,
                                     !.status = "RESOLVED"]]
        evaluated(rolled, partial, overall) ==
            finished(rolled, partial, overall, _check_reactions(state, plan, overall, 1))
        \* lines 13-41: the rolls have been made
        rolled_all(rolled) ==
            evaluated(rolled,
                      [res EXCEPT !.status = "AWAITING_ROLL",
                                  !.roll_results = rolled.roll_results,
                                  !.narration_fragments = rolled.narration_fragments],
                      _evaluate_success(rolled.roll_results))
    IN  rolled_all(run_rolls(plan, plan.required_rolls, 0, res.roll_results,
                             res.narration_fragments, rnd))

(***************************************************************************)
(* The world of the model: a player and two hostile goblins in one room,   *)
(* after scenarios.test_encounter.create_test_encounter.                   *)
(***************************************************************************)
PlayerHp == 2           \* bound: the player's initial hp
GoblinHp == 1           \* bound: each goblin's initial hp

ItemObj(id) == ObjV([id |-> StrV(id), weight |-> IntV(1)])

EntityObj(id, hp) ==
    ObjV([id |-> StrV(id), hp |-> IntV(hp),
          attributes |-> DictV([STR |-> IntV(10)]),
          conditions |-> ListV(<<>>), equipped |-> None,
          disposition |-> StrV("hostile"), reacts_to |-> StrV("say")])

PlayerObj(hp) ==
    ObjV([id |-> StrV("player"), hp |-> IntV(hp),
          attributes |-> DictV([STR |-> IntV(18)]),
          conditions |-> ListV(<<>>), equipped |-> None,
          inventory |-> ListV(<<ItemObj("rope")>>), reacts_to |-> StrV("say")])

RoomObj(occupants) ==
    ObjV([id |-> StrV("room"), occupants |-> ListV(occupants),
          items |-> ListV(<<ItemObj("torch")>>)])

InitialState ==
    [player |-> PlayerObj(PlayerHp),
     location |-> RoomObj(<<EntityObj("goblin_1", GoblinHp),
                            EntityObj("goblin_2", GoblinHp)>>)]

EntityIds == {"player", "goblin_1", "goblin_2"}

(***************************************************************************)
(* StateManager readers used by the controller.  Results are [err, val].   *)
(***************************************************************************)
\* entity.hp > 0
hp_positive(entity) ==
    IF entity.t # "obj" \/ "hp" \notin DOMAIN entity.v THEN Raise("AttributeError")
    ELSE IF entity.v.hp.t # "int" THEN Raise("TypeError")
    ELSE Ok(entity.v.hp.v > 0)

\* get_alive_enemies_in_room: the ids of the entities of the list returned
RECURSIVE alive_from(_, _)
alive_from(occupants, i) ==
    IF i > Len(occupants) THEN Ok(<<>>)
    ELSE LET alive == hp_positive(occupants[i])
             more  == alive_from(occupants, i + 1)
         IN  IF alive.err # "" THEN Raise(alive.err)
             ELSE IF more.err # "" THEN more
             ELSE IF alive.val THEN Ok(<<occupants[i].v.id.v>> \o more.val)
             ELSE more

get_alive_enemies_in_room(state) ==
    LET occ == state.location.v.occupants
    IN  IF ~Truthy(occ) THEN Ok(<<>>)
        ELSE IF occ.t # "list" THEN Raise("TypeError")
        ELSE alive_from(occ.v, 1)

\* has_hostile_entities_in_room: a hostile entity with hp > 0 is in the room
has_hostile_entities_in_room(state) ==
    LET alive == get_alive_enemies_in_room(state)
    IN  IF alive.err # "" THEN alive ELSE Ok(Len(alive.val) > 0)

get_player_character(state) == state.player

\* get_relevant_context(action)
get_relevant_context(state, action) == state

(***************************************************************************)
(* core.game_controller.GameController helpers                             *)
(***************************************************************************)
max_iterations == 50

\* mutant of the cap test: the drain stops one iteration late
CapReached_late(n) == n > max_iterations

CapReached(n) == n >= max_iterations

\* mutant of the loop counter: iterations is not incremented
NextIteration_stuck(n) == n

NextIteration(n) == n + 1

CapFragment == [t |-> "cap"]
ErrorFragment(e) == [t |-> "error", e |-> e]
ExplainFragment == [t |-> "explain"]
CombatFragment(r) == [t |-> "combat", v |-> r]

\* _is_player_alive: [err, val]
_is_player_alive(state) ==
    LET player == get_player_character(state)
    IN  IF ~Truthy(player) THEN Ok(FALSE) ELSE hp_positive(player)

\* mutant of _check_combat_result: victory is tested before defeat
_check_combat_result_victory(state) ==
    LET alive   == _is_player_alive(state)
        hostile == has_hostile_entities_in_room(state)
    IN  IF hostile.err # "" THEN hostile
        ELSE IF ~hostile.val THEN Ok(StrV("VICTORY"))
        ELSE IF alive.err # "" THEN alive
        ELSE IF ~alive.val THEN Ok(StrV("DEFEAT"))
        ELSE Ok(None)

\* _check_combat_result: [err, val], val the DEFEAT or VICTORY line or None
_check_combat_result(state) ==
    LET alive   == _is_player_alive(state)
        hostile == has_hostile_entities_in_room(state)
    IN  IF alive.err # "" THEN alive
        ELSE IF ~alive.val THEN Ok(StrV("DEFEAT"))
        ELSE IF hostile.err # "" THEN hostile
        ELSE IF ~hostile.val THEN Ok(StrV("VICTORY"))
        ELSE Ok(None)

\* uuid4().hex[:8]: the n-th id drawn is fresh
ActionId(n) == <<"action", n>>

(***************************************************************************)
(* GameController._resolve_action.  The Oracle's part is the answer ans:   *)
(*   interp         "fail" (interpret_action raises), "invalid" (it        *)
(*                  returns None) or "plan" (it returns ans.plan)          *)
(*   explain_fails  explain_invalid_action raises                          *)
(*   describe_fails the position of the reaction whose describe_reaction   *)
(*                  raises, 0 when none does                               *)
(* The result is [buffer, state, q, action, err, applied, enqueued]: err   *)
(* is "" or the exception caught at the per-action boundary, applied the   *)
(* number of state changes applied, enqueued the number of reactions       *)
(* enqueued.                                                               *)
(***************************************************************************)
\* mutant of Phase 3: a failing change is reported after the whole batch
RECURSIVE apply_changes_on(_, _, _)
apply_changes_on(state, changes, i) ==
    IF i > Len(changes) THEN [err |-> "", state |-> state, applied |-> i - 1]
    ELSE LET changed(one) ==
                 IF one.err # ""
                 THEN [apply_changes_on(state, changes, i + 1) EXCEPT !.err = one.err]
                 ELSE apply_changes_on(one.state, changes, i + 1)
         IN  changed(apply_change(state, changes[i]))

\* mutant of Phase 3: the batch is atomic, a failing change takes back
\* the changes applied before it
RECURSIVE apply_changes_atomic(_, _, _)
apply_changes_atomic(state, changes, i) ==
    IF i > Len(changes) THEN [err |-> "", state |-> state, applied |-> i - 1]
    ELSE LET rest(one, more) ==
                 IF one.err # "" THEN [err |-> one.err, state |-> state, applied |-> i - 1]
                 ELSE IF more.err # "" THEN [more EXCEPT !.state = state]
                 ELSE more
             changed(one) ==
                 rest(one, IF one.err # "" THEN one
                           ELSE apply_changes_atomic(one.state, changes, i + 1))
         IN  changed(apply_change(state, changes[i]))

\* Phase 3, from the i-th pending change on: [err, state, applied]
RECURSIVE apply_changes(_, _, _)
apply_changes(state, changes, i) ==
    IF i > Len(changes) THEN [err |-> "", state |-> state, applied |-> i - 1]
    ELSE LET changed(one) ==
                 IF one.err # "" THEN [err |-> one.err, state |-> state, applied |-> i - 1]
                 ELSE apply_changes(one.state, changes, i + 1)
         IN  changed(apply_change(state, changes[i]))

\* Phase 4, from the i-th triggered reaction on: [err, q, enqueued]
RECURSIVE enqueue_reactions(_, _, _, _, _)
enqueue_reactions(q, state, reactions, i, describe_fails) ==
    IF i > Len(reactions) THEN [err |-> "", q |-> q, enqueued |-> i - 1]
    ELSE LET entity == get_entity(state, reactions[i].owner_id)
             described == [reactions[i] EXCEPT !.intent_text = "reaction"]
         IN  IF entity.err THEN [err |-> "AttributeError", q |-> q, enqueued |-> i - 1]
             ELSE IF describe_fails = i
             THEN [err |-> "OracleError", q |-> q, enqueued |-> i - 1]
             ELSE enqueue_reactions(enqueue_reaction(q, described), state,
                                    reactions, i + 1, describe_fails)

\* mutant of the except clause: the exception is swallowed without narration
Caught_silent(buffer, e) == buffer

\* except Exception as e: the bracketed error fragment is appended
Caught(buffer, e) == Append(buffer, ErrorFragment(e))

\* mutant of Phases 2 to 4: the engine has already written the pending
\* changes to the live state when the controller applies them
resolve_outcome_eager(action, state, q, buffer, executed, describe_fails) ==
    LET res   == executed.resolution
        heard == buffer \o res.narration_fragments
        done  == [action EXCEPT !.resolution = res]
        phase4(applied, reacted) ==
            [buffer |-> IF reacted.err # ""
                        THEN Caught(heard, reacted.err) ELSE heard,
             state |-> applied.state, q |-> reacted.q, action |-> done,
             err |-> reacted.err, applied |-> applied.applied,
             enqueued |-> reacted.enqueued]
        phase3(applied) ==
            IF applied.err # ""
            THEN [buffer |-> Caught(heard, applied.err),
                  state |-> applied.state, q |-> q, action |-> done,
                  err |-> applied.err, applied |-> applied.applied, enqueued |-> 0]
            ELSE phase4(applied,
                        enqueue_reactions(q, applied.state, res.triggered_reactions,
                                          1, describe_fails))
        written(engine) == phase3(apply_changes(engine.state, res.pending_state_changes, 1))
    IN  IF executed.err # ""
        THEN [buffer |-> Caught(buffer, executed.err),
              state |-> state, q |-> q, action |-> done,
              err |-> executed.err, applied |-> 0, enqueued |-> 0]
        ELSE written(apply_changes(state, res.pending_state_changes, 1))

\* mutant of Phases 3 and 4: the reactions are described and enqueued
\* before the pending changes are applied
resolve_outcome_reacting_first(action, state, q, buffer, executed, describe_fails) ==
    LET res   == executed.resolution
        heard == buffer \o res.narration_fragments
        done  == [action EXCEPT !.resolution = res]
        phase3(reacted, applied) ==
            [buffer |-> IF applied.err # ""
                        THEN Caught(heard, applied.err) ELSE heard,
             state |-> applied.state, q |-> reacted.q, action |-> done,
             err |-> applied.err, applied |-> applied.applied,
             enqueued |-> reacted.enqueued]
        phase4(reacted) ==
            IF reacted.err # ""
            THEN [buffer |-> Caught(heard, reacted.err),
                  state |-> state, q |-> reacted.q, action |-> done,
                  err |-> reacted.err, applied |-> 0, enqueued |-> reacted.enqueued]
            ELSE phase3(reacted, apply_changes(state, res.pending_state_changes, 1))
    IN  IF executed.err # ""
        THEN [buffer |-> Caught(buffer, executed.err),
              state |-> state, q |-> q, action |-> done,
              err |-> executed.err, applied |-> 0, enqueued |-> 0]
        ELSE phase4(enqueue_reactions(q, state, res.triggered_reactions, 1, describe_fails))

\* Phases 2 to 4 once execute_plan has returned `executed`
resolve_outcome(action, state, q, buffer, executed, describe_fails) ==
    LET res   == executed.resolution
        heard == buffer \o res.narration_fragments
        done  == [action EXCEPT !.resolution = res]
        \* lines 121-123: Phase 4 has run
        phase4(applied, reacted) ==
            [buffer |-> IF reacted.err # ""
                        THEN Caught(heard, reacted.err) ELSE heard,
             state |-> applied.state, q |-> reacted.q, action |-> done,
             err |-> reacted.err, applied |-> applied.applied,
             enqueued |-> reacted.enqueued]
        \* lines 117-119: Phase 3 has run
        phase3(applied) ==
            IF applied.err # ""
            THEN [buffer |-> Caught(heard, applied.err),
                  state |-> applied.state, q |-> q, action |-> done,
                  err |-> applied.err, applied |-> applied.applied, enqueued |-> 0]
            ELSE phase4(applied,
                        enqueue_reactions(q, applied.state, res.triggered_reactions,
                                          1, describe_fails))
    IN  IF executed.err # ""
        THEN [buffer |-> Caught(buffer, executed.err),
              state |-> state, q |-> q, action |-> done,
              err |-> executed.err, applied |-> 0, enqueued |-> 0]
        ELSE phase3(apply_changes(state, res.pending_state_changes, 1))

\* mutant of _resolve_action: an invalid interpretation is executed as an
\* empty plan instead of being explained
InvalidOutcome_executed(action, state, q, buffer, ans) ==
    LET empty == ActionPlan("other", action.owner_id, <<>>, <<>>, <<>>, <<>>, <<>>)
        acted == [action EXCEPT !.plan = empty]
    IN  resolve_outcome(acted, state, q, buffer,
                        execute_plan(Resolution(empty), state, <<>>), 0)

\* the branch `if action.plan is None`
InvalidOutcome(action, state, q, buffer, ans) ==
    [buffer |-> IF ans.explain_fails THEN Caught(buffer, "OracleError")
                ELSE Append(buffer, ExplainFragment),
     state |-> state, q |-> q, action |-> action,
     err |-> IF ans.explain_fails THEN "OracleError" ELSE "",
     applied |-> 0, enqueued |-> 0]

_resolve_action(action, state, q, buffer, ans, rnd) ==
    LET context == get_relevant_context(state, action)
        planned == [action EXCEPT !.plan = ans.plan]
    IN  IF ans.interp = "fail"
        THEN [buffer |-> Caught(buffer, "OracleError"),
              state |-> state, q |-> q, action |-> action,
              err |-> "OracleError", applied |-> 0, enqueued |-> 0]
        ELSE IF ans.interp = "invalid"
        THEN InvalidOutcome(action, state, q, buffer, ans)
        ELSE resolve_outcome(planned, state, q, buffer,
                             execute_plan(Resolution(ans.plan), state, rnd),
                             ans.describe_fails)

(***************************************************************************)
(* The Oracle's answers.  Quiet answers leave no fragment in the buffer    *)
(* and change the state at most by setting an hp to 0; every other answer  *)
(* but the rousing of a crowd is loud.  A plain Oracle answers every       *)
(* action with a taunt, which keeps a reaction cascade going, or with a    *)
(* wait.  A free Oracle gives any answer to the first MaxVaried actions of *)
(* a drain (at most MaxLoud loud ones in a session, and a crowd is roused  *)
(* only while fewer than MaxPending actions are pending) and a wait to     *)
(* the later ones.                                                         *)
(***************************************************************************)
MaxLoud == 1            \* bound: loud Oracle answers in one session
MaxVaried == 2          \* bound: actions of one drain with a free Oracle answer
MaxInputs == 2          \* bound: process_player_input calls in one session
MaxPending == 1         \* bound: actions pending when the Oracle rouses a crowd
MaxThrows == 2          \* bound: die throws available to one action in Spec

Chars1d2 == <<"1", "d", "2">>
NoOutcomes == [SUCCESS |-> <<>>, FAILURE |-> <<>>]

Other(actor) == IF actor = "player" THEN "goblin_1" ELSE "player"

\* nothing happens
WaitPlan(actor) == ActionPlan("other", actor, <<>>, <<>>, <<>>, <<>>, <<>>)

\* a taunt the other side reacts to
TauntPlan(actor) == ActionPlan("say", actor, <<>>, <<>>, <<Other(actor)>>, <<>>, <<>>)

\* a sure blow: the target's hp is set to 0 (a fumble would fell the actor)
KillPlan(actor, target) ==
    ActionPlan("other", actor, <<>>, <<>>, <<>>,
               <<StateChange(target, <<"hp">>, "set", IntV(0))>>,
               <<StateChange(actor, <<"hp">>, "set", IntV(0))>>)

\* an attack roll against AC 2 that pulls in a damage roll when it hits
AttackPlan(actor) ==
    ActionPlan("attack", actor,
               <<RollSpec(actor, "ATTACK", Chars1d2, 2, FALSE, FALSE, NoOutcomes, "attack")>>,
               (0 :> <<RollSpec(actor, "DAMAGE", Chars1d2, 2, FALSE, FALSE,
                                NoOutcomes, "damage")>>),
               <<>>,
               <<StateChange(Other(actor), <<"hp">>, "remove", IntV(1))>>, <<>>)

\* a roll whose dice formula is malformed
GarbledPlan(actor) ==
    ActionPlan("skill", actor,
               <<RollSpec(actor, "CHECK", <<"d", "2">>, 2, FALSE, FALSE, NoOutcomes, "check")>>,
               <<>>, <<Other(actor)>>,
               <<StateChange(Other(actor), <<"hp">>, "set", IntV(0))>>, <<>>)

\* a batch whose second change fails in the way `how`
BadChange(who, how) ==
    CASE how = "operation" -> StateChange(who, <<"hp">>, "toggle", IntV(1))
      [] how = "path"      -> StateChange(who, <<"equipped", "name">>, "set", IntV(1))
      [] how = "add"       -> StateChange(who, <<"conditions">>, "add", IntV(1))
      [] how = "append"    -> StateChange(who, <<"hp">>, "append", IntV(1))

BadKinds == {"operation", "path", "add", "append"}

BotchedPlan(actor, how) ==
    ActionPlan("say", actor, <<>>, <<>>, <<Other(actor)>>,
               <<StateChange(actor, <<"attributes", "STR">>, "set", IntV(1)),
                 BadChange(actor, how),
                 StateChange(Other(actor), <<"hp">>, "set", IntV(0))>>, <<>>)

\* a curse: the other side's hp is set to 0, and the other side reacts
CursePlan(actor) ==
    ActionPlan("say", actor, <<>>, <<>>, <<Other(actor)>>,
               <<StateChange(Other(actor), <<"hp">>, "set", IntV(0))>>, <<>>)

\* a hex: a check whose outcomes carry changes of their own (a success
\* would fell the other side, a failure the actor), while the plan itself
\* only sets the actor's STR to 1 on success
HexPlan(actor) ==
    ActionPlan("skill", actor,
               <<RollSpec(actor, "CHECK", Chars1d2, 2, FALSE, FALSE,
                          [SUCCESS |-> <<StateChange(Other(actor), <<"hp">>, "set", IntV(0))>>,
                           FAILURE |-> <<StateChange(actor, <<"hp">>, "set", IntV(0))>>],
                          "hex")>>,
               <<>>, <<>>,
               <<StateChange(actor, <<"attributes", "STR">>, "set", IntV(1))>>, <<>>)

\* a taunt two others react to
Crowd(actor) ==
    IF actor = "player" THEN <<"goblin_1", "goblin_2">> ELSE <<"player", "goblin_2">>
RousePlan(actor) == ActionPlan("say", actor, <<>>, <<>>, Crowd(actor), <<>>, <<>>)

PlainPlans(actor) == {WaitPlan(actor), TauntPlan(actor)}

QuietPlans(actor) ==
    PlainPlans(actor) \cup {KillPlan(actor, e) : e \in EntityIds}

LoudPlans(actor) ==
    {AttackPlan(actor), GarbledPlan(actor), CursePlan(actor), HexPlan(actor)} \cup {BotchedPlan(actor, h) : h \in BadKinds}

Answer(interp, plan, explain_fails, describe_fails) ==
    [interp |-> interp, plan |-> plan, explain_fails |-> explain_fails,
     describe_fails |-> describe_fails]

PlainAnswers(actor) == {Answer("plan", p, FALSE, 0) : p \in PlainPlans(actor)}

QuietAnswers(actor) == {Answer("plan", p, FALSE, 0) : p \in QuietPlans(actor)}

LoudAnswers(actor) ==
    {Answer("fail", None, FALSE, 0),
     Answer("invalid", None, FALSE, 0),
     Answer("invalid", None, TRUE, 0),
     Answer("plan", TauntPlan(actor), FALSE, 1)}
    \cup {Answer("plan", p, FALSE, 0) : p \in LoudPlans(actor)}

IsLoud(actor, ans) == ans \in LoudAnswers(actor)

\* the answers the Oracle may give to the n-th action of a drain (from 0)
\* once it has given `given` loud answers, while `held` actions are pending
OracleAnswers(mood, actor, n, given, held) ==
    IF mood = "plain" THEN PlainAnswers(actor)
    ELSE IF n >= MaxVaried THEN {Answer("plan", WaitPlan(actor), FALSE, 0)}
    ELSE QuietAnswers(actor)
            \cup (IF held < MaxPending
                  THEN {Answer("plan", RousePlan(actor), FALSE, 0)} ELSE {})
            \cup (IF given < MaxLoud THEN LoudAnswers(actor) ELSE {})

Throws == [1..MaxThrows -> 1..2]

(***************************************************************************)
(* GameController: process_player_input, one step per loop iteration.      *)
(*   pc = "idle"          no call is running (the last one returned)       *)
(*   pc = "raised"        no call is running (the last one raised)         *)
(*   pc = "player_drain"  in _process_queue, line 38                       *)
(*   pc = "combat_check"  at line 41                                       *)
(*   pc = "enemy_loop"    at the head of the for loop of                   *)
(*                        _process_enemy_turns                             *)
(*   pc = "enemy_drain"   in _process_queue, line 77                       *)
(*   pc = "narrate"       at line 50                                       *)
(***************************************************************************)
Init ==
    /\ _queues = ActionQueue.queues
    /\ _priorities = ActionQueue.priorities
    /\ narration_buffer = <<>>
    /\ turn_based = FALSE
    /\ gs = InitialState
    /\ pc = "idle"
    /\ iterations = 0
    /\ enemies = <<>>
    /\ inputs = 0
    /\ output = None
    /\ last = None
    /\ loud = 0
    /\ uuids = 0
    /\ oracle \in {"plain", "free"}
    /\ ret = None
    /\ arrival = <<>>
    /\ plan_in = None
    /\ resolution = None

Step(op) == [t |-> "step", op |-> op]

\* _enqueue_action(owner_id, text): the queue afterwards
_enqueue_action(q, owner_id, text, n) == enqueue(q, Action(ActionId(n), owner_id, text, 0))

\* mutant of process_player_input: the buffer is not cleared on entry
ProcessPlayerInput_keeping ==
    /\ pc \in {"idle", "raised"}
    /\ inputs < MaxInputs
    /\ inputs' = inputs + 1
    /\ SetQ(_enqueue_action(Q, "player", "player input", uuids + 1))
    /\ arrival' = Append(arrival, Action(ActionId(uuids + 1), "player", "player input", 0))
    /\ uuids' = uuids + 1
    /\ iterations' = 0
    /\ pc' = "player_drain"
    /\ output' = None
    /\ last' = Step("input")
    /\ UNCHANGED <<narration_buffer, turn_based, gs, enemies, loud, hvars>>

\* lines 34-38, up to the entry of the drain
ProcessPlayerInput ==
    /\ pc \in {"idle", "raised"}
    /\ inputs < MaxInputs
    /\ inputs' = inputs + 1
    /\ narration_buffer' = <<>>
    /\ SetQ(_enqueue_action(Q, "player", "player input", uuids + 1))
    /\ arrival' = Append(arrival, Action(ActionId(uuids + 1), "player", "player input", 0))
    /\ uuids' = uuids + 1
    /\ iterations' = 0
    /\ pc' = "player_drain"
    /\ output' = None
    /\ last' = Step("input")
    /\ UNCHANGED <<turn_based, gs, enemies, loud, hvars>>

InDrain == pc \in {"player_drain", "enemy_drain"}
AfterDrain == IF pc = "player_drain" THEN "combat_check" ELSE "enemy_loop"

\* mutant of _process_queue: the limit is noted after the loop, whenever
\* max_iterations actions were resolved
DrainEmpty_noting ==
    /\ InDrain
    /\ is_empty(Q)
    /\ pc' = AfterDrain
    /\ iterations' = 0
    /\ last' = Step("drained")
    /\ narration_buffer' = IF CapReached(iterations)
                           THEN Append(narration_buffer, CapFragment)
                           ELSE narration_buffer
    /\ UNCHANGED <<qvars, turn_based, gs, enemies,
                   inputs, output, loud, uuids, arrival, hvars>>

\* _process_queue: the while test fails
DrainEmpty ==
    /\ InDrain
    /\ is_empty(Q)
    /\ pc' = AfterDrain
    /\ iterations' = 0
    /\ last' = Step("drained")
    /\ UNCHANGED <<qvars, narration_buffer, turn_based, gs, enemies,
                   inputs, output, loud, uuids, arrival, hvars>>

\* _process_queue: the safety limit is hit
DrainCap ==
    /\ InDrain
    /\ ~is_empty(Q)
    /\ CapReached(iterations)
    /\ narration_buffer' = Append(narration_buffer, CapFragment)
    /\ pc' = AfterDrain
    /\ iterations' = 0
    /\ last' = Step("capped")
    /\ UNCHANGED <<qvars, turn_based, gs, enemies, inputs, output,
                   loud, uuids, arrival, hvars>>

\* _process_queue: one action is dequeued and resolved
DrainResolve ==
    /\ InDrain
    /\ ~is_empty(Q)
    /\ ~CapReached(iterations)
    /\ LET \* line 89 has returned r
           resolved(action, ans, r) ==
               /\ narration_buffer' = r.buffer
               /\ gs' = r.state
               /\ SetQ(r.q)
               /\ arrival' = RemoveFirst(arrival, action)
                                 \o [i \in 1..r.enqueued |->
                                        Described(r.action.resolution.triggered_reactions[i])]
               /\ loud' = IF IsLoud(action.owner_id, ans) THEN loud + 1 ELSE loud
               /\ last' = [t |-> "resolve", action |-> r.action, err |-> r.err,
                           applied |-> r.applied, enqueued |-> r.enqueued,
                           interp |-> ans.interp]
           \* dequeue has returned d.ret and left the queue d.q
           dequeued(d) ==
               \E ans \in OracleAnswers(oracle, d.ret.owner_id, iterations, loud, qsize(d.q)) :
               \E rnd \in Throws :
                  resolved(d.ret, ans,
                           _resolve_action(d.ret, gs, d.q, narration_buffer, ans, rnd))
       IN  dequeued(dequeue(Q))
    /\ iterations' = NextIteration(iterations)
    /\ UNCHANGED <<turn_based, pc, enemies, inputs, output, uuids, hvars>>

\* lines 41-44: turn_based is set and the enemy phase is entered
CombatCheck ==
    /\ pc = "combat_check"
    /\ LET hostile == has_hostile_entities_in_room(gs)
           alive   == get_alive_enemies_in_room(gs)
       IN  IF hostile.err # ""
           THEN /\ pc' = "raised"
                /\ UNCHANGED <<turn_based, enemies>>
           ELSE /\ turn_based' = hostile.val
                /\ enemies' = IF hostile.val THEN alive.val ELSE <<>>
                /\ pc' = IF hostile.val THEN "enemy_loop" ELSE "narrate"
    /\ last' = Step("combat_check")
    /\ UNCHANGED <<qvars, narration_buffer, gs, iterations, inputs, output,
                   loud, uuids, arrival, hvars>>

\* _process_enemy_turns: one pass of the for loop; the Oracle's
\* generate_enemy_action returns an intent, returns None or raises
EnemyTurn ==
    /\ pc = "enemy_loop"
    /\ enemies # <<>>
    /\ _is_player_alive(gs).err = ""
    /\ _is_player_alive(gs).val
    /\ \E intent \in {"intent", "none", "fail"} :
          CASE intent = "fail" ->
                  /\ pc' = "raised"
                  /\ UNCHANGED <<qvars, iterations, enemies, uuids, arrival>>
            [] intent = "none" ->
                  /\ enemies' = Tail(enemies)
                  /\ UNCHANGED <<qvars, iterations, pc, uuids, arrival>>
            [] intent = "intent" ->
                  /\ SetQ(_enqueue_action(Q, Head(enemies), "enemy intent", uuids + 1))
                  /\ arrival' = Append(arrival, Action(ActionId(uuids + 1), Head(enemies),
                                                       "enemy intent", 0))
                  /\ uuids' = uuids + 1
                  /\ iterations' = 0
                  /\ enemies' = Tail(enemies)
                  /\ pc' = "enemy_drain"
    /\ last' = Step("enemy_turn")
    /\ UNCHANGED <<narration_buffer, turn_based, gs, inputs, output, loud, hvars>>

\* the for loop ends (list exhausted or the player is dead); lines 46-48
EnemyPhaseEnd ==
    /\ pc = "enemy_loop"
    /\ \/ enemies = <<>>
       \/ _is_player_alive(gs).err # ""
       \/ ~_is_player_alive(gs).val
    /\ LET alive  == _is_player_alive(gs)
           result == _check_combat_result(gs)
       IN  IF (enemies # <<>> /\ alive.err # "") \/ result.err # ""
           THEN /\ pc' = "raised"
                /\ UNCHANGED <<narration_buffer, turn_based>>
           ELSE /\ pc' = "narrate"
                /\ narration_buffer' =
                       IF result.val # None
                       THEN Append(narration_buffer, CombatFragment(result.val.v))
                       ELSE narration_buffer
                /\ turn_based' = IF result.val # None THEN FALSE ELSE turn_based
    /\ enemies' = <<>>
    /\ last' = Step("enemy_phase_end")
    /\ UNCHANGED <<qvars, gs, iterations, inputs, output, loud, uuids, arrival, hvars>>

\* f"{value}": the text an f-string puts for a str or for None
format(value) == IF value = None THEN "None" ELSE value.v

\* lines 50-56: the Oracle's compose_narration returns or raises; the text
\* returned is the composed narration followed by `appended`
Narrate ==
    /\ pc = "narrate"
    /\ \E composed \in BOOLEAN :
          LET result == _check_combat_result(gs)
          IN  IF ~composed \/ result.err # ""
              THEN /\ pc' = "raised"
                   /\ UNCHANGED output
              ELSE /\ pc' = "idle"
                   /\ output' = [t |-> "text", narration |-> narration_buffer,
                                 combat_result |-> result.val,
                                 appended |-> format(result.val)]
    /\ last' = Step("narrate")
    /\ UNCHANGED <<qvars, narration_buffer, turn_based, gs, iterations, enemies,
                   inputs, loud, uuids, arrival, hvars>>

ControllerStep ==
    \/ DrainEmpty
    \/ DrainCap
    \/ DrainResolve
    \/ CombatCheck
    \/ EnemyTurn
    \/ EnemyPhaseEnd
    \/ Narrate

Next == ProcessPlayerInput \/ ControllerStep

Spec == Init /\ [][Next]_vars

\* DrainResolve can be taken exactly in these states: the Oracle always has
\* an answer, and the step increments iterations
DrainReady == InDrain /\ ~is_empty(Q) /\ ~CapReached(iterations)

\* A running call of process_player_input is executed to its end: every
\* step of the controller is taken once it can be.  For DrainResolve weak
\* fairness is written out, with DrainReady for ENABLED <<DrainResolve>>_vars.
FairSpec ==
    /\ Spec
    /\ WF_vars(DrainEmpty) /\ WF_vars(DrainCap) /\ WF_vars(CombatCheck)
    /\ WF_vars(EnemyTurn) /\ WF_vars(EnemyPhaseEnd) /\ WF_vars(Narrate)
    /\ ([]<>~DrainReady \/ []<><<DrainResolve>>_vars)

(***************************************************************************)
(* Properties of the turn loop                                             *)
(***************************************************************************)
Running == pc \notin {"idle", "raised"}
Resolved == last # None /\ last.t = "resolve"
Has(buffer, fragment) == \E i \in DOMAIN buffer : buffer[i] = fragment
ErrorCount(buffer) == Cardinality({i \in DOMAIN buffer : buffer[i].t = "error"})

\* C1 (strict form): a call of process_player_input always reaches narration
\* composition and returns, so no call ever ends by raising.
C1_NeverRaises == pc # "raised"

\* C1 (termination): every call of process_player_input ends after finitely many
\* steps, whatever the Oracle answers: it returns the composed narration, or
\* it raises (a failure outside the per-action boundary).
C1_Terminates == Running ~> (pc \in {"idle", "raised"})

\* C1 witness: a call has returned after a drain was stopped at the cap and
\* the enemies had their turns.
C1_Witness ==
    /\ pc = "idle"
    /\ output # None
    /\ Has(output.narration, CapFragment)
    /\ uuids > inputs

\* C2: iterations counts the actions a drain has resolved; a drain ends only
\* when the queue is empty (nothing is appended) or when exactly 50 actions
\* have been resolved and the queue still holds one, and then the fragment
\* '[The chaos becomes too complex to follow...]' is appended exactly once.
C2_CapAtFifty ==
    [][/\ (~InDrain /\ InDrain') => iterations' = 0
       /\ DrainResolve => (iterations < 50 /\ iterations' = iterations + 1 /\ pc' = pc)
       /\ (InDrain /\ pc' # pc) =>
              IF is_empty(Q) THEN narration_buffer' = narration_buffer
              ELSE /\ iterations = 50
                   /\ narration_buffer' = Append(narration_buffer, CapFragment)]_vars

\* C2 witness: the player's drain was stopped at the cap after a cascade in
\* which every action drew a reaction; the fragment stands once in the buffer.
C2_Witness ==
    /\ last = Step("capped")
    /\ pc = "combat_check"
    /\ narration_buffer = <<CapFragment>>
    /\ qsize(Q) = 1

\* C3: when a drain has been stopped at the cap the queue is empty.
C3_QueueEmptyAfterCap == (last = Step("capped")) => is_empty(Q)

\* C6: whatever raises while one action is resolved, the drain is not left,
\* exactly one error fragment is appended (the last of the buffer), the
\* other queued actions stay queued; without an exception no error fragment
\* is appended.
C6_ErrorsCaught ==
    [][DrainResolve =>
          /\ pc' = pc
          /\ qsize(Q') = qsize(Q) - 1 + last'.enqueued
          /\ ErrorCount(narration_buffer') =
                 ErrorCount(narration_buffer) + (IF last'.interp = "fail" \/ last'.err # ""
                                                 THEN 1 ELSE 0)
          /\ (last'.interp = "fail" \/ last'.err # "") =>
                 narration_buffer'[Len(narration_buffer')].t = "error"]_vars

\* C6 witness: executing a plan has raised (a malformed dice formula) while
\* another action was still queued.
C6_Witness ==
    /\ Resolved
    /\ last.err = "ValueError"
    /\ last.action.plan = GarbledPlan(last.action.owner_id)
    /\ narration_buffer[Len(narration_buffer)] = ErrorFragment("ValueError")
    /\ InDrain /\ ~is_empty(Q)

\* C7 (strict form): an invalid interpretation leaves the resolution absent,
\* appends exactly one explanation fragment, and changes neither the
\* GameState nor the queue.
C7_InvalidExplained ==
    [][(DrainResolve /\ last'.interp = "invalid") =>
          /\ last'.action.plan = None
          /\ last'.action.resolution = None
          /\ narration_buffer' = Append(narration_buffer, ExplainFragment)
          /\ gs' = gs
          /\ Q' = dequeue(Q).q]_vars

\* C7 (skipping): an invalid interpretation leaves the resolution absent and
\* changes neither the GameState nor the queue; exactly one fragment is
\* appended: the explanation, or the error fragment when the request for the
\* explanation itself raises.
C7_InvalidSkipped ==
    [][(DrainResolve /\ last'.interp = "invalid") =>
          /\ last'.action.plan = None
          /\ last'.action.resolution = None
          /\ narration_buffer' =
                 Append(narration_buffer,
                        IF last'.err = "" THEN ExplainFragment
                        ELSE ErrorFragment(last'.err))
          /\ gs' = gs
          /\ Q' = dequeue(Q).q]_vars

\* C7 witness: an invalid action has been explained while another action was
\* still queued.
C7_Witness ==
    /\ Resolved
    /\ last.interp = "invalid"
    /\ last.err = ""
    /\ narration_buffer[Len(narration_buffer)] = ExplainFragment
    /\ InDrain /\ ~is_empty(Q)

\* the state after the first k changes of a batch
RECURSIVE AfterFirst(_, _, _)
AfterFirst(state, changes, k) ==
    IF k = 0 THEN state
    ELSE apply_change(AfterFirst(state, changes, k - 1), changes[k]).state

\* the position of the first change of a batch that fails, 0 if none does
FirstFailing(state, changes) ==
    LET failing == {k \in 1..Len(changes) :
                       apply_change(AfterFirst(state, changes, k - 1), changes[k]).err # ""}
    IN  IF failing = {} THEN 0 ELSE CHOOSE k \in failing : \A j \in failing : k <= j

\* C9: when the k-th change of the batch of an executed plan fails, the
\* state is the one after the first k - 1 changes (no later change is
\* applied), the failure is the last fragment of the buffer, after the
\* fragments of the rolls, no reaction is enqueued and the drain is not left;
\* an unknown operation, a broken path, a non-numeric add and a non-list
\* append all fail that way.
C9_BatchAbandoned ==
    [][DrainResolve =>
          LET action == last'.action
              res    == action.resolution
              k      == FirstFailing(gs, res.pending_state_changes)
          IN  /\ (res # None /\ res.status = "RESOLVED" /\ k > 0) =>
                     /\ gs' = AfterFirst(gs, res.pending_state_changes, k - 1)
                     /\ last'.err # ""
                     /\ narration_buffer' =
                            narration_buffer \o res.narration_fragments
                                \o <<ErrorFragment(last'.err)>>
                     /\ Q' = dequeue(Q).q
                     /\ pc' = pc
              /\ \A how \in BadKinds :
                     action.plan = BotchedPlan(action.owner_id, how) =>
                        (res.status = "RESOLVED" /\ k = 2)]_vars

\* C9 witness: the second change of a batch of three has failed on a broken
\* path; the first is applied, the third is not, another action is queued.
C9_Witness ==
    /\ Resolved
    /\ last.action.plan = BotchedPlan("goblin_1", "path")
    /\ last.err = "AttributeError"
    /\ gs.location.v.occupants.v[1].v.attributes.v.STR = IntV(1)
    /\ gs.player.v.hp = IntV(PlayerHp)
    /\ InDrain /\ ~is_empty(Q)

(***************************************************************************)
(* QueueSpec: the ActionQueue API under arbitrary sequences of calls.      *)
(***************************************************************************)
MaxHeld == 3            \* bound: actions held by the queue in QueueSpec
QueueIds == {"a", "b", "c"}
QueuePriorities == {0, REACTION_PRIORITY, REACTION_PRIORITY + 50}
QueueActions ==
    {Action(i, "owner", "intent", p) : i \in QueueIds, p \in QueuePriorities}

Idle ==
    /\ narration_buffer = <<>>
    /\ turn_based = FALSE
    /\ gs = None
    /\ pc = "idle"
    /\ iterations = 0
    /\ enemies = <<>>
    /\ inputs = 0
    /\ output = None
    /\ loud = 0
    /\ uuids = 0
    /\ oracle = "free"

QueueInit ==
    /\ _queues = ActionQueue.queues
    /\ _priorities = ActionQueue.priorities
    /\ Idle
    /\ last = None
    /\ ret = None
    /\ arrival = <<>>
    /\ plan_in = None
    /\ resolution = None

QEnqueue(a) ==
    /\ qsize(Q) < MaxHeld
    /\ SetQ(enqueue(Q, a))
    /\ ret' = None
    /\ arrival' = Append(arrival, a)
    /\ last' = [t |-> "call", op |-> "enqueue", arg |-> a]
    /\ UNCHANGED <<narration_buffer, turn_based, gs, pc, iterations, enemies,
                   inputs, output, plan_in, resolution, loud, uuids, oracle>>

QEnqueueReaction(a) ==
    /\ qsize(Q) < MaxHeld
    /\ SetQ(enqueue_reaction(Q, a))
    /\ ret' = None
    /\ arrival' = Append(arrival, [a EXCEPT !.priority = REACTION_PRIORITY])
    /\ last' = [t |-> "call", op |-> "enqueue_reaction", arg |-> a]
    /\ UNCHANGED <<narration_buffer, turn_based, gs, pc, iterations, enemies,
                   inputs, output, plan_in, resolution, loud, uuids, oracle>>

QDequeue ==
    /\ SetQ(dequeue(Q).q)
    /\ ret' = dequeue(Q).ret
    /\ arrival' = RemoveFirst(arrival, dequeue(Q).ret)
    /\ last' = [t |-> "call", op |-> "dequeue", arg |-> None]
    /\ UNCHANGED <<narration_buffer, turn_based, gs, pc, iterations, enemies,
                   inputs, output, plan_in, resolution, loud, uuids, oracle>>

\* a bool returned to the harness
BoolV(b) == [t |-> "bool", v |-> b]

\* is_empty() and peek() read the deques and assign nothing
QIsEmpty ==
    /\ ret' = BoolV(is_empty(Q))
    /\ last' = [t |-> "call", op |-> "is_empty", arg |-> None]
    /\ UNCHANGED <<qvars, arrival, narration_buffer, turn_based, gs, pc, iterations,
                   enemies, inputs, output, plan_in, resolution, loud, uuids, oracle>>

QPeek ==
    /\ ret' = peek(Q)
    /\ last' = [t |-> "call", op |-> "peek", arg |-> None]
    /\ UNCHANGED <<qvars, arrival, narration_buffer, turn_based, gs, pc, iterations,
                   enemies, inputs, output, plan_in, resolution, loud, uuids, oracle>>

QueueNext ==
    \/ \E a \in QueueActions : QEnqueue(a)
    \/ \E a \in QueueActions : QEnqueueReaction(a)
    \/ QDequeue
    \/ QIsEmpty
    \/ QPeek

QueueSpec == QueueInit /\ [][QueueNext]_vars

\* the held action that was enqueued earliest among those of the highest
\* priority held, None when nothing is held
EarliestOfHighest(arr) ==
    IF arr = <<>> THEN None
    ELSE LET top == CHOOSE p \in {arr[i].priority : i \in 1..Len(arr)} :
                        \A i \in 1..Len(arr) : arr[i].priority <= p
             k   == CHOOSE i \in 1..Len(arr) :
                        /\ arr[i].priority = top
                        /\ \A j \in 1..(i - 1) : arr[j].priority # top
         IN  arr[k]

\* C4: every dequeue returns the action enqueued earliest among the actions of
\* the highest priority held, and returns None iff nothing is held; the
\* actions held afterwards are the others.
C4_DequeueOrder ==
    [][QDequeue =>
          /\ ret' = EarliestOfHighest(arrival)
          /\ (ret' = None) <=> (arrival = <<>>)
          /\ qsize(Q') = Len(arrival')]_vars

\* C4 witness: a dequeue has returned a priority-0 action that was enqueued
\* before a still-held action of the same level while a higher level had
\* been used and emptied.
C4_Witness ==
    /\ last # None /\ last.t = "call" /\ last.op = "dequeue"
    /\ ret # None /\ ret.priority = 0
    /\ Len(arrival) >= 1 /\ arrival[1].priority = 0
    /\ REACTION_PRIORITY \in DOMAIN _queues

\* s without its k-th element
RemoveAt(s, k) == [i \in 1..(Len(s) - 1) |-> IF i < k THEN s[i] ELSE s[i + 1]]

\* C5: an action added with enqueue_reaction is held at priority 100 whatever
\* priority it carried; in the dequeue order it stands after every action
\* held at priority >= 100 and before every action of lower priority, and the
\* order of the other actions is unchanged.
C5_ReactionOrder ==
    [][\A a \in QueueActions :
          QEnqueueReaction(a) =>
              LET c      == [a EXCEPT !.priority = REACTION_PRIORITY]
                  before == DrainOrder(Q)
                  after  == DrainOrder(Q')
              IN  \E k \in 1..Len(after) :
                      /\ after[k] = c
                      /\ RemoveAt(after, k) = before
                      /\ \A j \in 1..(k - 1) : after[j].priority >= REACTION_PRIORITY
                      /\ \A j \in (k + 1)..Len(after) :
                             after[j].priority < REACTION_PRIORITY]_vars

\* C5 witness: enqueue a (priority 0), enqueue b (priority 0),
\* enqueue_reaction c has just been called; the dequeue order is c, a, b.
C5_Witness ==
    /\ last # None /\ last.t = "call" /\ last.op = "enqueue_reaction"
    /\ last.arg.id = "c" /\ last.arg.priority # REACTION_PRIORITY
    /\ arrival = <<Action("a", "owner", "intent", 0),
                   Action("b", "owner", "intent", 0),
                   Action("c", "owner", "intent", REACTION_PRIORITY)>>
    /\ DrainOrder(Q) = <<Action("c", "owner", "intent", REACTION_PRIORITY),
                         Action("a", "owner", "intent", 0),
                         Action("b", "owner", "intent", 0)>>

(***************************************************************************)
(* StateSpec: StateManager.apply_change under arbitrary sequences of       *)
(* changes.  ret is the outcome of the last call, [t, err].                *)
(***************************************************************************)
MaxChanges == 2         \* bound: apply_change calls in StateSpec

\* a room whose occupant list also holds a bare id reference
ReferencedState ==
    [player |-> PlayerObj(PlayerHp),
     location |-> RoomObj(<<StrV("goblin_3"), EntityObj("goblin_1", GoblinHp)>>)]

\* a state in which ids are carried by more than one object: "player" and
\* "room" by items of the inventory too, "rope" by an occupant too,
\* "goblin_1" by two occupants and an item, "torch" by two items
SharedIdState ==
    [player |-> ObjV([PlayerObj(PlayerHp).v EXCEPT
                        !.inventory = ListV(<<ItemObj("rope"), ItemObj("player"),
                                              ItemObj("room")>>)]),
     location |-> ObjV([RoomObj(<<EntityObj("rope", GoblinHp),
                                  EntityObj("goblin_1", GoblinHp),
                                  EntityObj("goblin_1", 0)>>).v EXCEPT
                        !.items = ListV(<<ItemObj("torch"), ItemObj("goblin_1"),
                                          ItemObj("torch")>>)])]

\* a state in which the player's conditions hold the same status twice
ConditionedState ==
    [InitialState EXCEPT
        !.player.v.conditions = ListV(<<StrV("prone"), IntV(1), StrV("prone")>>)]

ChangeTargets == {"player", "goblin_1", "torch", "rope", "room", "goblin_3", "ghost"}
ChangePaths ==
    {<<"hp">>, <<"attributes", "STR">>, <<"conditions">>, <<"equipped", "name">>,
     <<"inventory">>}
ChangeOperations == {"set", "add", "remove", "append", "toggle"}
ChangeValues == {IntV(1), StrV("prone")}
Changes ==
    {StateChange(who, path, op, v) :
        who \in ChangeTargets, path \in ChangePaths,
        op \in ChangeOperations, v \in ChangeValues}

Applied(err) == [t |-> "applied", err |-> err]

StateInit ==
    /\ _queues = ActionQueue.queues
    /\ _priorities = ActionQueue.priorities
    /\ narration_buffer = <<>>
    /\ turn_based = FALSE
    /\ gs \in {InitialState, ReferencedState, SharedIdState, ConditionedState}
    /\ pc = "idle"
    /\ iterations = 0
    /\ enemies = <<>>
    /\ inputs = 0
    /\ output = None
    /\ loud = 0
    /\ uuids = 0
    /\ oracle = "free"
    /\ last = None
    /\ ret = None
    /\ arrival = <<>>
    /\ plan_in = None
    /\ resolution = None

\* one call apply_change(change); an exception leaves the state as it is
SApplyChange(change) ==
    /\ inputs < MaxChanges
    /\ inputs' = inputs + 1
    /\ LET returned(r) == gs' = r.state /\ ret' = Applied(r.err)
       IN  returned(apply_change(gs, change))
    /\ last' = [t |-> "call", op |-> "apply_change", arg |-> change]
    /\ UNCHANGED <<qvars, narration_buffer, turn_based, pc, iterations, enemies,
                   output, arrival, plan_in, resolution, loud, uuids, oracle>>

StateNext == \E change \in Changes : SApplyChange(change)

StateSpec == StateInit /\ [][StateNext]_vars

\* C8: apply_change with a target_id for which get_entity returns None
\* leaves the whole GameState unchanged and raises nothing, whatever the
\* attribute path, the operation and the value.
C8_UnresolvedDropped ==
    [][(SApplyChange(last'.arg) /\ get_entity(gs, last'.arg.target_id) = Found(None))
          => (gs' = gs /\ ret' = Applied(""))]_vars

\* C8 witness: after a change that was applied, a change of the hp of "ghost",
\* an id carried by nothing, has been dropped without an exception.
C8_Witness ==
    /\ last # None /\ last.t = "call" /\ last.op = "apply_change"
    /\ last.arg = StateChange("ghost", <<"hp">>, "set", IntV(1))
    /\ ret = Applied("")
    /\ inputs = 2
    /\ gs.player.v.hp = IntV(PlayerHp + 1)

(***************************************************************************)
(* EngineSpec: ResolutionEngine.execute_plan on arbitrary plans.  plan_in  *)
(* is the plan, resolution the Resolution returned; every roll is 1d2      *)
(* against 2, so each throw decides one roll.                              *)
(***************************************************************************)
MaxRequired == 2        \* bound: rolls in required_rolls in EngineSpec
MaxKey == 2             \* bound: largest key of conditional_rolls in EngineSpec
MaxRolls == 9           \* bound: die throws available to one plan in EngineSpec

\* the required roll that stands at index i of required_rolls
Required(i) ==
    RollSpec("player", IF i = 0 THEN "ATTACK" ELSE "CHECK", Chars1d2, 2, FALSE, FALSE,
             NoOutcomes, <<"required", i>>)

\* the conditional roll stored under key k
Conditional(k) ==
    RollSpec("player", "DAMAGE", Chars1d2, 2, FALSE, FALSE, NoOutcomes,
             <<"conditional", k>>)

IndexedPlans ==
    {ActionPlan("attack", "player", [i \in 1..n |-> Required(i - 1)],
                [k \in keys |-> <<Conditional(k)>>], <<>>, <<>>, <<>>) :
        n \in 0..MaxRequired, keys \in SUBSET (0..MaxKey)}

\* the second conditional roll stored under key k
Follow(k) ==
    RollSpec("player", "DAMAGE", Chars1d2, 2, FALSE, FALSE, NoOutcomes, <<"follow", k>>)

\* one required roll, and two conditional rolls under each key: the rolls
\* spliced for key 0 stand at indices 1 and 2 of the working list
PairedPlans ==
    {ActionPlan("attack", "player", <<Required(0)>>,
                [k \in keys |-> <<Conditional(k), Follow(k)>>], <<>>, <<>>, <<>>) :
        keys \in SUBSET (0..1)}

MaxThreshold == 3       \* bound: largest threshold of a roll in EngineSpec

\* a roll of the given type: 1d2 against `threshold`
Typed(type, threshold, tag) ==
    RollSpec("player", type, Chars1d2, threshold, FALSE, FALSE, NoOutcomes, tag)

\* the changes a plan carries for its two verdicts
OnSuccess == <<StateChange("goblin_1", <<"hp">>, "remove", IntV(1))>>
OnFailure == <<StateChange("player", <<"conditions">>, "append", StrV("prone"))>>

\* an attack against threshold T whose hit pulls in one damage roll against D
StrikePlan(T, D) ==
    ActionPlan("attack", "player", <<Typed("ATTACK", T, <<"attack", 0>>)>>,
               (0 :> <<Typed("DAMAGE", D, <<"damage", 0>>)>>), <<>>, OnSuccess, OnFailure)

StrikePlans == {StrikePlan(T, D) : T \in 1..MaxThreshold, D \in 1..MaxThreshold}

RollTypes == {"ATTACK", "DAMAGE", "SAVE", "CHECK", "CONTEST"}

\* plans whose required rolls are of any types, each 1d2 against 2
VerdictPlans ==
    {ActionPlan("skill", "player",
                [i \in DOMAIN types |-> Typed(types[i], 2, <<"verdict", i>>)],
                <<>>, <<>>, OnSuccess, OnFailure) :
        types \in UNION {[1..n -> RollTypes] : n \in 1..MaxRequired}}

MaxReactors == 3        \* bound: ids in potential_reactions in EngineSpec

\* the ids a plan may name as reactors: "ghost" is carried by nothing
ReactorIds == EntityIds \cup {"ghost"}

\* plans of one check that name any reactors, in any order
ReactionPlans ==
    {ActionPlan(type, "player", <<Typed("CHECK", 2, <<"check", 0>>)>>, <<>>,
                reactors, <<>>, <<>>) :
        type \in {"say", "attack"},
        reactors \in UNION {[1..n -> ReactorIds] : n \in 0..MaxReactors}}

EnginePlans ==
    IndexedPlans \cup PairedPlans \cup StrikePlans \cup VerdictPlans \cup ReactionPlans

\* every plan finds a throw for each of its rolls: at most MaxRequired
\* required rolls and one conditional roll per key
EngineThrows == [1..Max(MaxRolls, MaxRequired + MaxKey + 1) -> 1..2]

EngineInit ==
    /\ _queues = ActionQueue.queues
    /\ _priorities = ActionQueue.priorities
    /\ narration_buffer = <<>>
    /\ turn_based = FALSE
    /\ gs = InitialState
    /\ pc = "idle"
    /\ iterations = 0
    /\ enemies = <<>>
    /\ inputs = 0
    /\ output = None
    /\ loud = 0
    /\ uuids = 0
    /\ oracle = "free"
    /\ last = None
    /\ ret = None
    /\ arrival = <<>>
    /\ plan_in \in EnginePlans
    /\ resolution = None

\* one call execute_plan(Resolution(action_plan=plan_in))
EExecutePlan ==
    /\ resolution = None
    /\ \E rnd \in EngineThrows :
          LET returned(r) == resolution' = r.resolution /\ ret' = Applied(r.err)
          IN  returned(execute_plan(Resolution(plan_in), gs, rnd))
    /\ last' = [t |-> "call", op |-> "execute_plan", arg |-> plan_in]
    /\ UNCHANGED <<qvars, narration_buffer, turn_based, gs, pc, iterations, enemies,
                   inputs, output, arrival, plan_in, loud, uuids, oracle>>

EngineNext == EExecutePlan

EngineSpec == EngineInit /\ [][EngineNext]_vars

\* the roll spec was executed / was executed and succeeded
Executed(res, spec) ==
    \E j \in DOMAIN res.roll_results : res.roll_results[j].spec = spec
Succeeded(res, spec) ==
    \E j \in DOMAIN res.roll_results :
        res.roll_results[j].spec = spec /\ success(res.roll_results[j])

\* C10: the rolls stored under key k of conditional_rolls are executed
\* exactly when the roll at index k of the original required_rolls
\* succeeded.
C10_OriginalOrdering ==
    resolution # None =>
        \A k \in DOMAIN plan_in.conditional_rolls :
            Executed(resolution, Conditional(k))
                <=> (k < Len(plan_in.required_rolls)
                        /\ Succeeded(resolution, Required(k)))

\* C11: an attack against T with a damage roll under key 0 yields the attack
\* and the damage result and the success changes when the attack total is
\* at least T, whatever the damage roll shows; otherwise it yields the attack
\* result alone and the failure changes.
C11_AttackThenDamage ==
    \A T \in 1..MaxThreshold, D \in 1..MaxThreshold :
        (resolution # None /\ plan_in = StrikePlan(T, D)) =>
            /\ ret = Applied("")
            /\ resolution.status = "RESOLVED"
            /\ Len(resolution.roll_results) >= 1
            /\ resolution.roll_results[1].spec = Typed("ATTACK", T, <<"attack", 0>>)
            /\ IF resolution.roll_results[1].result >= T
               THEN /\ Len(resolution.roll_results) = 2
                    /\ resolution.roll_results[2].spec = Typed("DAMAGE", D, <<"damage", 0>>)
                    /\ resolution.pending_state_changes = OnSuccess
               ELSE /\ Len(resolution.roll_results) = 1
                    /\ resolution.pending_state_changes = OnFailure

\* C11 witness: the attack met its threshold exactly, the damage roll failed
\* and the plan succeeded all the same.
C11_Witness ==
    /\ resolution # None
    /\ plan_in = StrikePlan(2, 2)
    /\ Len(resolution.roll_results) = 2
    /\ resolution.roll_results[1].result = 2
    /\ resolution.roll_results[2].outcome = "FAILURE"
    /\ resolution.pending_state_changes = OnSuccess

C13_PrimaryRollsGate ==
    (resolution # None /\ ret = Applied("") /\ resolution.roll_results # <<>>) =>
        LET rr == resolution.roll_results
            verdict == \A i \in DOMAIN rr :
                           rr[i].spec.type \in {"ATTACK", "CHECK", "SAVE", "CONTEST"}
                               => rr[i].outcome = "SUCCESS"
        IN  /\ resolution.status = "RESOLVED"
            /\ resolution.pending_state_changes =
                   IF verdict THEN plan_in.on_success ELSE plan_in.on_failure

\* C13 witness: two damage rolls were executed, both failed, and the plan
\* succeeded.
C13_Witness ==
    /\ resolution # None
    /\ plan_in \in VerdictPlans
    /\ Len(resolution.roll_results) = 2
    /\ \A i \in 1..2 : /\ resolution.roll_results[i].spec.type = "DAMAGE"
                        /\ resolution.roll_results[i].outcome = "FAILURE"
    /\ resolution.pending_state_changes = OnSuccess

\* the queue after the first n of the reactions have been described and
\* handed to enqueue_reaction
RECURSIVE EnqueuedFirst(_, _, _)
EnqueuedFirst(q, reactions, n) ==
    IF n = 0 THEN q
    ELSE enqueue_reaction(EnqueuedFirst(q, reactions, n - 1),
                          [reactions[n] EXCEPT !.intent_text = "reaction"])

\* C14: resolving one action changes the GameState only by the apply_change
\* calls of the apply phase on the pending changes of the executed plan, and
\* the queue only by the dequeue of the action and the enqueue_reaction
\* calls of the react phase; executing the plan changes neither, and a step
\* that ends a drain changes neither.
C14_SingleWriter ==
    [][/\ DrainResolve =>
             LET res == last'.action.resolution
                 executed == /\ last'.interp = "plan"
                             /\ res # None
                             /\ res.status = "RESOLVED"
             IN  IF executed
                 THEN /\ last'.applied <= Len(res.pending_state_changes)
                      /\ last'.enqueued <= Len(res.triggered_reactions)
                      /\ gs' = AfterFirst(gs, res.pending_state_changes, last'.applied)
                      /\ Q' = EnqueuedFirst(dequeue(Q).q, res.triggered_reactions,
                                            last'.enqueued)
                 ELSE gs' = gs /\ Q' = dequeue(Q).q
       /\ (InDrain /\ pc' # pc) => (gs' = gs /\ Q' = Q)]_vars

\* C14 witness: an attack has been resolved and its one pending change has
\* taken one hp from the goblin.
C14_Witness ==
    /\ Resolved
    /\ last.action.plan = AttackPlan("player")
    /\ last.applied = 1
    /\ Len(last.action.resolution.roll_results) = 2
    /\ gs.location.v.occupants.v[1].v.hp = IntV(GoblinHp - 1)

\* how often the action a occurs in a sequence, and in the queue
Count(seq, a) == Cardinality({i \in DOMAIN seq : seq[i] = a})
Held(q, a) == SumLen([p \in DOMAIN q.queues |->
                        [i \in 1..Count(q.queues[p], a) |-> a]], DOMAIN q.queues)
HeldActions(q) == UNION {{q.queues[p][i] : i \in DOMAIN q.queues[p]} : p \in DOMAIN q.queues}

\* C15: the actions the queue holds are exactly the actions that entered it
\* and have not been resolved, each as often as it entered: a dequeued
\* action is not held again and is resolved once; and when a drain ends with
\* the queue empty, every action that entered has been resolved.
C15_ResolvedOnce ==
    /\ \A a \in HeldActions(Q) \cup {arrival[i] : i \in DOMAIN arrival} :
           Held(Q, a) = Count(arrival, a)
    /\ (last = Step("drained")) => arrival = <<>>

\* C15 witness: three actions of a cascade have been resolved, the last of
\* them a reaction of the player, and the queue holds the one reaction that
\* entered since and nothing else.
C15_Witness ==
    /\ Resolved
    /\ iterations = 3
    /\ last.action.owner_id = "player"
    /\ last.enqueued = 1
    /\ Len(arrival) = 1
    /\ arrival[1].owner_id = "goblin_1"
    /\ qsize(Q) = 1

\* the actions that enter the queue in a step: the reactions a resolving
\* step has enqueued, the action an input or an enemy turn has enqueued
Entering ==
    LET k == IF last'.t = "resolve" /\ iterations' = iterations + 1
             THEN last'.enqueued
             ELSE IF Len(arrival') > Len(arrival) THEN Len(arrival') - Len(arrival)
             ELSE 0
    IN  SubSeq(arrival', Len(arrival') - k + 1, Len(arrival'))

\* ids of actions that entered the queue before the step: those still held,
\* and the one the previous step resolved
EnteredBefore ==
    {arrival[i].id : i \in DOMAIN arrival}
        \cup (IF last.t = "resolve" THEN {last.action.id} ELSE {})

\* C16: every action that enters the queue has an id that no action that
\* entered before has (those still held and the one resolved last are such
\* actions), and that no action entering with it has.
C16_FreshIds ==
    [][\A i \in DOMAIN Entering :
          /\ Entering[i].id \notin EnteredBefore
          /\ \A j \in DOMAIN Entering : j # i => Entering[j].id # Entering[i].id]_vars

\* C17: an enemy's intent is generated only while the player's hp is
\* positive and only when everything enqueued before has been drained (the
\* queue is empty); the enemy then leaves the list of enemies still to act,
\* and an intent is enqueued as one action of that enemy.
C17_EnemyTurnsInOrder ==
    [][(pc = "enemy_loop" /\ last' = Step("enemy_turn")) =>
          /\ gs.player.v.hp.v > 0
          /\ is_empty(Q)
          /\ pc' # "raised" => enemies' = Tail(enemies)
          /\ pc' = "enemy_drain" =>
                 /\ qsize(Q') = 1
                 /\ dequeue(Q').ret.owner_id = Head(enemies)]_vars

\* what the combat check is to report in a state: defeat when the player's
\* hp is not positive, else victory when no occupant of the room has a
\* positive hp, else nothing
Verdict(state) ==
    IF state.player.v.hp.v <= 0 THEN StrV("DEFEAT")
    ELSE IF \A i \in DOMAIN state.location.v.occupants.v :
                state.location.v.occupants.v[i].v.hp.v <= 0
    THEN StrV("VICTORY")
    ELSE None

\* C18: the check after the enemy phase appends to the narration, and the
\* check at the end of the call returns, the defeat line iff the player's hp
\* is <= 0, the victory line iff the player is alive and no hostile entity
\* of the room is, and nothing otherwise.
C18_CombatVerdict ==
    [][/\ (last' = Step("enemy_phase_end") /\ pc' = "narrate") =>
             narration_buffer' =
                 IF Verdict(gs) = None THEN narration_buffer
                 ELSE Append(narration_buffer, CombatFragment(Verdict(gs).v))
       /\ (last' = Step("narrate") /\ pc' = "idle") =>
             output'.combat_result = Verdict(gs)]_vars

\* C18 witness: state changes have set the hp of the player and of both
\* goblins to 0, and the call has returned the defeat line.
C18_Witness ==
    /\ pc = "idle"
    /\ output # None
    /\ output.combat_result = StrV("DEFEAT")
    /\ gs.player.v.hp = IntV(0)
    /\ \A i \in 1..2 : gs.location.v.occupants.v[i].v.hp = IntV(0)

\* the places get_entity is to look at, in the order player, inventory,
\* room, occupants, items; a field that is not a list contributes nothing
Listed(place, l) ==
    IF l.t = "list" THEN [i \in 1..Len(l.v) |-> [place |-> place, k |-> i, obj |-> l.v[i]]]
    ELSE <<>>

Places(state) ==
    <<[place |-> "player", k |-> 0, obj |-> state.player]>>
    \o Listed("inventory", state.player.v.inventory)
    \o <<[place |-> "location", k |-> 0, obj |-> state.location]>>
    \o Listed("occupant", state.location.v.occupants)
    \o Listed("item", state.location.v.items)

\* the first place whose object carries entity_id, None when there is none
FirstMatch(state, entity_id) ==
    LET P    == Places(state)
        hits == {i \in DOMAIN P : /\ P[i].obj.t = "obj"
                                  /\ "id" \in DOMAIN P[i].obj.v
                                  /\ P[i].obj.v.id = StrV(entity_id)}
    IN  IF hits = {} THEN None
        ELSE LET i == CHOOSE h \in hits : \A g \in hits : h <= g
             IN  Ref(P[i].place, P[i].k)

\* C19: get_entity returns the first object carrying the id in the order
\* player, inventory, room, occupants, items, and returns None without
\* raising when no object carries it.
C19_FirstMatchWins ==
    \A entity_id \in ChangeTargets :
        get_entity(gs, entity_id) = Found(FirstMatch(gs, entity_id))

\* the value reached from x along path; None when a segment is absent
RECURSIVE ValueAt(_, _)
ValueAt(x, path) ==
    IF path = <<>> THEN x
    ELSE IF x.t \in {"obj", "dict"} /\ Head(path) \in DOMAIN x.v
    THEN ValueAt(x.v[Head(path)], Tail(path))
    ELSE None

\* the four ways a change on the object `target` is to fail
BrokenPath(target, change) ==
    \E n \in 1..(Len(change.attribute) - 1) :
        ValueAt(target, SubSeq(change.attribute, 1, n)) = None
AddToNonNumeric(target, change) ==
    change.operation = "add" /\ ValueAt(target, change.attribute).t # "int"
AppendToNonSequence(target, change) ==
    change.operation = "append" /\ ValueAt(target, change.attribute).t # "list"
UnknownOperation(change) ==
    change.operation \notin {"set", "add", "remove", "append"}

\* the object a change is aimed at, None when get_entity raises or finds none
TargetOf(state, change) ==
    LET target == get_entity(state, change.target_id)
    IN  IF target.err \/ target.ref = None THEN None ELSE Deref(state, target.ref)

\* C20: apply_change on a resolvable target raises and leaves GameState as
\* it was when the operation is add on a non-numeric value, append on a
\* non-sequence, an operation other than set/add/remove/append, or when an
\* intermediate segment of the attribute path is absent.
C20_FailedChangeLeavesState ==
    [][(/\ SApplyChange(last'.arg)
        /\ TargetOf(gs, last'.arg) # None
        /\ \/ BrokenPath(TargetOf(gs, last'.arg), last'.arg)
           \/ AddToNonNumeric(TargetOf(gs, last'.arg), last'.arg)
           \/ AppendToNonSequence(TargetOf(gs, last'.arg), last'.arg)
           \/ UnknownOperation(last'.arg))
          => (gs' = gs /\ ret'.err # "")]_vars

\* C20 witness: after a change that was applied, a change of goblin_1's
\* equipped.name, whose equipped is None, has raised and changed nothing.
C20_Witness ==
    /\ last # None /\ last.t = "call" /\ last.op = "apply_change"
    /\ last.arg = StateChange("goblin_1", <<"equipped", "name">>, "set", StrV("prone"))
    /\ ret = Applied("AttributeError")
    /\ inputs = 2
    /\ gs.player.v.hp = IntV(PlayerHp + 1)

\* the path, from the GameState, of the object a reference denotes
PathOf(ref) ==
    CASE ref.place = "player"    -> <<"player">>
      [] ref.place = "inventory" -> <<"player", "inventory", ref.k>>
      [] ref.place = "location"  -> <<"location">>
      [] ref.place = "occupant"  -> <<"location", "occupants", ref.k>>
      [] ref.place = "item"      -> <<"location", "items", ref.k>>

\* y is x except, at most, for what lies at path
RECURSIVE OnlyAt(_, _, _)
OnlyAt(x, y, path) ==
    IF path = <<>> THEN TRUE
    ELSE /\ y.t = x.t
         /\ DOMAIN y.v = DOMAIN x.v
         /\ \A k \in DOMAIN x.v :
                IF k = Head(path) THEN OnlyAt(x.v[k], y.v[k], Tail(path))
                ELSE y.v[k] = x.v[k]

\* l without its first element equal to x; l itself when there is none
WithoutFirst(l, x) ==
    LET hits == {i \in DOMAIN l : l[i] = x}
    IN  IF hits = {} THEN l
        ELSE LET i == CHOOSE h \in hits : \A g \in hits : h <= g
             IN  SubSeq(l, 1, i - 1) \o SubSeq(l, i + 1, Len(l))

\* what a remove of value from current is to leave: the difference of two
\* numbers, or the list without the first equal element
Removed(current, value) ==
    IF current.t = "int" THEN IntV(current.v - value.v)
    ELSE ListV(WithoutFirst(current.v, value))

\* C21: apply_change with operation remove on a resolvable target subtracts
\* the value from a numeric attribute, and takes the first equal element, if
\* any, out of a list attribute, without an error; nothing but the addressed
\* attribute of the addressed target changes.
C21_RemoveFirstEqual ==
    [][(/\ SApplyChange(last'.arg)
        /\ last'.arg.operation = "remove"
        /\ TargetOf(gs, last'.arg) # None
        /\ LET current == ValueAt(TargetOf(gs, last'.arg), last'.arg.attribute)
           IN  \/ current.t = "int" /\ last'.arg.value.t = "int"
               \/ current.t = "list")
          => LET ref  == get_entity(gs, last'.arg.target_id).ref
                 path == last'.arg.attribute
             IN  /\ ret'.err = ""
                 /\ ValueAt(TargetOf(gs', last'.arg), path)
                        = Removed(ValueAt(TargetOf(gs, last'.arg), path), last'.arg.value)
                 /\ OnlyAt(ObjV(gs), ObjV(gs'), PathOf(ref) \o path)]_vars

\* C21 witness: "prone" has been removed from conditions that held it
\* twice, around another element; the later "prone" is still there.
C21_Witness ==
    /\ last # None /\ last.t = "call" /\ last.op = "apply_change"
    /\ last.arg = StateChange("player", <<"conditions">>, "remove", StrV("prone"))
    /\ ret = Applied("")
    /\ inputs = 1
    /\ gs.player.v.conditions = ListV(<<IntV(1), StrV("prone")>>)

\* the grammar of dice formulas: digits, "d", digits, and optionally a sign
\* followed by word characters
AllIn(cs, from, to, chars) == \A i \in from..to : cs[i] \in chars
FitsGrammar(cs) ==
    \E a \in 1..Len(cs), b \in 1..Len(cs) :
        /\ a + 1 < b
        /\ AllIn(cs, 1, a, Digits)
        /\ cs[a + 1] = "d"
        /\ AllIn(cs, a + 2, b, Digits)
        /\ \/ b = Len(cs)
           \/ /\ b + 2 <= Len(cs)
              /\ cs[b + 1] \in {"+", "-"}
              /\ AllIn(cs, b + 2, Len(cs), WordChars)

\* the plan has a required roll whose formula does not fit the grammar
Garbled(plan) ==
    /\ plan # None
    /\ \E i \in DOMAIN plan.required_rolls : ~FitsGrammar(plan.required_rolls[i].dice)

\* C22: when the plan of the action being resolved has a roll whose formula
\* does not fit the grammar, roll_dice raises and the action is abandoned:
\* exactly one error fragment is appended, the GameState is left as it was, no reaction is enqueued, the
\* other actions stay queued and the drain goes on.
C22_BadFormulaAbandons ==
    [][(DrainResolve /\ Garbled(last'.action.plan)) =>
          /\ last'.err = "ValueError"
          /\ narration_buffer' = Append(narration_buffer, ErrorFragment("ValueError"))
          /\ gs' = gs
          /\ Q' = dequeue(Q).q
          /\ last'.applied = 0 /\ last'.enqueued = 0
          /\ pc' = pc]_vars

\* C22 witness: in the enemy drain goblin_1's action got a plan with the
\* formula "d2"; the error is narrated, the player, whom the plan's change
\* would have felled and who would have reacted, is untouched and the queue
\* is empty.
C22_Witness ==
    /\ pc = "enemy_drain"
    /\ last.t = "resolve"
    /\ last.action.owner_id = "goblin_1"
    /\ last.action.plan = GarbledPlan("goblin_1")
    /\ last.err = "ValueError"
    /\ narration_buffer[Len(narration_buffer)] = ErrorFragment("ValueError")
    /\ gs.player.v.hp = IntV(PlayerHp)
    /\ is_empty(Q)

(***************************************************************************)
(* RulesSpec: the RulesEngine API on arbitrary arguments.  plan_in is the  *)
(* call to make, ret what it returned; each behaviour makes one call with  *)
(* one sequence of die throws.                                             *)
(***************************************************************************)
MaxDice == 2            \* bound: dice of one formula in RulesSpec
MaxSides == 3           \* bound: sides of a die in RulesSpec
MaxModifier == 2        \* bound: one-digit literal modifiers in RulesSpec
MaxDC == 7              \* bound: largest threshold of a roll in RulesSpec
MaxScore == 20          \* bound: largest attribute score (and -smallest) in RulesSpec

DigitChars == <<"0", "1", "2", "3", "4", "5", "6", "7", "8", "9">>

\* str(n) for n >= 0
RECURSIVE Numeral(_)
Numeral(n) ==
    IF n < 10 THEN <<DigitChars[n + 1]>>
    ELSE Numeral(n \div 10) \o <<DigitChars[(n % 10) + 1]>>

\* the modifiers of a formula: none, a signed literal, a signed name
NoModifier == [kind |-> "none", sign |-> 1, k |-> 0, text |-> <<>>]
LiteralModifier(sign, k) ==
    [kind |-> "literal", sign |-> sign, k |-> k,
     text |-> <<IF sign = 1 THEN "+" ELSE "-">> \o Numeral(k)]
NamedModifier(sign, name) ==
    [kind |-> "name", sign |-> sign, k |-> 0,
     text |-> <<IF sign = 1 THEN "+" ELSE "-">> \o name]

AttributeNames == {<<"S", "T", "R">>, <<"s", "t", "r">>, <<"D", "E", "X">>}

Modifiers ==
    {NoModifier}
    \cup {LiteralModifier(sign, k) : sign \in {1, -1}, k \in (0..MaxModifier) \cup {12}}
    \cup {NamedModifier(sign, name) : sign \in {1, -1}, name \in AttributeNames}

\* the formula NdS followed by the modifier
Formula(N, S, modifier) == Numeral(N) \o <<"d">> \o Numeral(S) \o modifier.text

\* a formula with what it is made of: N dice of S sides and a modifier
Shaped(N, S, modifier) ==
    [dice |-> Formula(N, S, modifier), fits |-> TRUE, N |-> N, S |-> S,
     modifier |-> modifier]

\* a string that is not a formula
Misshapen(cs) ==
    [dice |-> cs, fits |-> FALSE, N |-> 0, S |-> 0, modifier |-> NoModifier]

ShapedFormulas ==
    {Shaped(N, S, m) : N \in 0..MaxDice, S \in 0..MaxSides, m \in Modifiers}
    \cup {[Shaped(1, 2, NoModifier) EXCEPT !.dice = <<" ", "1", "d", "2", " ">>]}

MisshapenFormulas ==
    {Misshapen(cs) : cs \in {<<>>, <<"d", "2">>, <<"1", "d">>, <<"1", "d", "2", "+">>,
                             <<"1", "x", "2">>, <<"1", "d", "2", " ", "+", "1">>,
                             <<"1", "d", "2", "+", "1", "+", "1">>}}

\* the modifiers of the attributes, by name
StrContext == DictV(<<"S", "T", "R">> :> 4)
Contexts == {None, DictV(<<>>), StrContext}

RollDiceCalls ==
    {[op |-> op, formula |-> f, context |-> c] :
        op \in {"roll_dice", "roll_with_advantage", "roll_with_disadvantage"},
        f \in ShapedFormulas \cup MisshapenFormulas, c \in Contexts}

\* the outcomes of a roll: both keys, one key, none
Felled == <<StateChange("goblin_1", <<"hp">>, "set", IntV(0))>>
Fumbled == <<StateChange("player", <<"conditions">>, "append", StrV("prone"))>>
OutcomeMaps ==
    {[SUCCESS |-> Felled, FAILURE |-> Fumbled], [SUCCESS |-> Felled],
     [FAILURE |-> Fumbled], <<>>}

ExecuteRollCalls ==
    {[op |-> "execute_roll", formula |-> f,
      spec |-> RollSpec("player", "CHECK", f.dice, threshold, adv, dis, outcomes, "check")] :
        f \in {Shaped(1, MaxSides, NoModifier), Shaped(MaxDice, MaxSides, LiteralModifier(1, 1)),
               Misshapen(<<"d", "2">>)},
        threshold \in 0..MaxDC, adv \in BOOLEAN, dis \in BOOLEAN, outcomes \in OutcomeMaps}

ModifierCalls ==
    {[op |-> "calculate_modifier", attribute_value |-> v] : v \in (-MaxScore)..MaxScore}

\* two rolls of MaxDice dice find a throw for each die
RulesThrows == [1..(2 * MaxDice) -> 1..MaxSides]

RulesInit ==
    /\ _queues = ActionQueue.queues
    /\ _priorities = ActionQueue.priorities
    /\ narration_buffer = <<>>
    /\ turn_based = FALSE
    /\ gs = InitialState
    /\ pc = "idle"
    /\ iterations = 0
    /\ enemies = <<>>
    /\ inputs = 0
    /\ output = None
    /\ loud = 0
    /\ uuids = 0
    /\ oracle = "free"
    /\ last = None
    /\ ret = None
    /\ arrival = <<>>
    /\ plan_in \in RollDiceCalls \cup ExecuteRollCalls \cup ModifierCalls
    /\ resolution = None

\* what a call leaves: the call made, with its throws, and its result
Called(rnd, result) ==
    /\ last' = [t |-> "call", op |-> plan_in.op, arg |-> plan_in, rnd |-> rnd]
    /\ ret' = result
    /\ UNCHANGED <<qvars, narration_buffer, turn_based, gs, pc, iterations, enemies,
                   inputs, output, arrival, plan_in, resolution, loud, uuids, oracle>>

RRollDice ==
    /\ ret = None /\ plan_in.op = "roll_dice"
    /\ \E rnd \in RulesThrows :
          Called(rnd, roll_dice(plan_in.formula.dice, plan_in.context, rnd))

RRollWithAdvantage ==
    /\ ret = None /\ plan_in.op = "roll_with_advantage"
    /\ \E rnd \in RulesThrows :
          Called(rnd, roll_with_advantage(plan_in.formula.dice, plan_in.context, rnd))

RRollWithDisadvantage ==
    /\ ret = None /\ plan_in.op = "roll_with_disadvantage"
    /\ \E rnd \in RulesThrows :
          Called(rnd, roll_with_disadvantage(plan_in.formula.dice, plan_in.context, rnd))

RExecuteRoll ==
    /\ ret = None /\ plan_in.op = "execute_roll"
    /\ \E rnd \in RulesThrows : Called(rnd, execute_roll(plan_in.spec, rnd))

RCalculateModifier ==
    /\ ret = None /\ plan_in.op = "calculate_modifier"
    /\ Called(<<>>, IntV(calculate_modifier(plan_in.attribute_value)))

RulesNext ==
    \/ RRollDice
    \/ RRollWithAdvantage
    \/ RRollWithDisadvantage
    \/ RExecuteRoll
    \/ RCalculateModifier

RulesSpec == RulesInit /\ [][RulesNext]_vars

\* the call op has returned
Returned(op) == last # None /\ last.t = "call" /\ last.op = op

\* m is the floor of (v - 10) / 2
IsFloorOfHalf(m, v) == 2 * m <= v - 10 /\ v - 10 < 2 * m + 2

\* C28: calculate_modifier(v) is floor((v - 10) / 2) for every score v,
\* below 10 and negative ones included; 18 gives 4, 8 gives -1, 10 gives 0.
C28_ModifierIsFloor ==
    Returned("calculate_modifier") =>
        /\ ret.t = "int"
        /\ IsFloorOfHalf(ret.v, plan_in.attribute_value)
        /\ plan_in.attribute_value = 18 => ret.v = 4
        /\ plan_in.attribute_value = 8 => ret.v = -1
        /\ plan_in.attribute_value = 10 => ret.v = 0

\* C28 witness: the odd negative score -3 gave -7, the floor of -6.5.
C28_Witness ==
    /\ Returned("calculate_modifier")
    /\ plan_in.attribute_value = -3
    /\ ret = IntV(-7)

\* the sum of the faces the first n throws of rnd show on dice of S sides
RECURSIVE FaceSum(_, _, _)
FaceSum(rnd, n, S) ==
    IF n = 0 THEN 0 ELSE FaceSum(rnd, n - 1, S) + ((rnd[n] - 1) % S) + 1

\* C27: for a formula NdS+k or NdS-k with a literal k and S >= 1, roll_dice
\* returns a value between N plus the signed k and N*S plus the signed k:
\* the sum of N faces, each in 1..S, and the signed k once.
C27_RollWithinRange ==
    (/\ Returned("roll_dice")
     /\ plan_in.formula.fits
     /\ plan_in.formula.modifier.kind = "literal"
     /\ plan_in.formula.S >= 1)
        => LET N      == plan_in.formula.N
               S      == plan_in.formula.S
               signed == plan_in.formula.modifier.sign * plan_in.formula.modifier.k
           IN  /\ ret.err = ""
               /\ N + signed <= ret.total
               /\ ret.total <= N * S + signed
               /\ ret.total = FaceSum(last.rnd, N, S) + signed

\* C27 witness: 2d3-12 showed two threes and returned -6, the top of its
\* range.
C27_Witness ==
    /\ Returned("roll_dice")
    /\ plan_in.formula = Shaped(2, 3, LiteralModifier(-1, 12))
    /\ ret.err = ""
    /\ ret.total = -6

\* roll_dice has returned from a formula NdS, S >= 1, followed by a signed
\* attribute name
RolledNamed ==
    /\ Returned("roll_dice")
    /\ plan_in.formula.fits
    /\ plan_in.formula.modifier.kind = "name"
    /\ plan_in.formula.S >= 1

\* the context holds no modifier for the name of the formula's modifier
NameUnknown(formula, context) ==
    \A key \in DOMAIN context.v : key # upper(Tail(formula.modifier.text))

ComponentRolls ==
    LET second(r1, r2) == <<r1.total, r2.total>>
        first(r1) ==
            second(r1, roll_dice(plan_in.formula.dice, plan_in.context, r1.rest))
    IN  first(roll_dice(plan_in.formula.dice, plan_in.context, last.rnd))

\* C26: roll_with_advantage returns a value that is at least each of its two
\* component rolls and is one of them; roll_with_disadvantage returns a value
\* that is at most each of them and is one of them.
C26_AdvantageBounds ==
    LET upper_of(rolls) ==
            /\ ret.total >= rolls[1] /\ ret.total >= rolls[2]
            /\ ret.total \in {rolls[1], rolls[2]}
        lower_of(rolls) ==
            /\ ret.total <= rolls[1] /\ ret.total <= rolls[2]
            /\ ret.total \in {rolls[1], rolls[2]}
    IN  /\ (Returned("roll_with_advantage") /\ ret.err = "") => upper_of(ComponentRolls)
        /\ (Returned("roll_with_disadvantage") /\ ret.err = "") => lower_of(ComponentRolls)
        /\ (/\ Returned("roll_with_advantage") \/ Returned("roll_with_disadvantage")
            /\ plan_in.formula.fits
            /\ plan_in.formula.modifier.kind # "name"
            /\ plan_in.formula.S >= 1) => ret.err = ""

\* C26 witness: 2d3+1 with advantage rolled 4, then 7, and returned 7.
C26_Witness ==
    /\ Returned("roll_with_advantage")
    /\ plan_in.formula = Shaped(2, 3, LiteralModifier(1, 1))
    /\ last.rnd = <<1, 2, 3, 3>>
    /\ ComponentRolls = <<4, 7>>
    /\ ret.err = ""
    /\ ret.total = 7

\* C24: execute_roll reports SUCCESS iff the total is at least the threshold
\* and FAILURE otherwise, and the RollResult carries the changes the spec's
\* outcomes list under the reported outcome, none when the key is absent.
C24_MeetsOrBeats ==
    Returned("execute_roll") =>
        LET spec   == plan_in.spec
            result == ret.result
        IN  /\ plan_in.formula.fits => ret.err = ""
            /\ ret.err = "" =>
                  /\ result.spec = spec
                  /\ result.outcome \in {"SUCCESS", "FAILURE"}
                  /\ result.outcome = "SUCCESS" <=> result.result >= spec.threshold
                  /\ result.state_changes =
                         IF result.outcome \in DOMAIN spec.outcomes
                         THEN spec.outcomes[result.outcome] ELSE <<>>

\* C24 witness: 1d3 against 3 showed a three; the roll succeeded, and the
\* outcomes, which list changes for FAILURE only, gave it no change.
C24_Witness ==
    /\ Returned("execute_roll")
    /\ plan_in.spec.dice = <<"1", "d", "3">>
    /\ plan_in.spec.threshold = 3
    /\ plan_in.spec.outcomes = [FAILURE |-> Fumbled]
    /\ ret.err = ""
    /\ ret.result.result = 3
    /\ ret.result.outcome = "SUCCESS"
    /\ ret.result.state_changes = <<>>

\* the total of the k-th roll (k = 1, 2) of the formula on the throws rnd:
\* N faces and the signed literal
KthRoll(formula, rnd, k) ==
    FaceSum(rnd, k * formula.N, formula.S) - FaceSum(rnd, (k - 1) * formula.N, formula.S)
        + formula.modifier.sign * formula.modifier.k

\* C25: with advantage and disadvantage both set, or neither, execute_roll
\* makes one roll of the formula; with advantage alone it makes two and
\* takes the larger, with disadvantage alone two and takes the smaller.
C25_FlagsCancel ==
    (Returned("execute_roll") /\ plan_in.formula.fits) =>
        LET f    == plan_in.formula
            spec == plan_in.spec
            r1   == KthRoll(f, last.rnd, 1)
            r2   == KthRoll(f, last.rnd, 2)
            once  == ret.rest = SubSeq(last.rnd, f.N + 1, Len(last.rnd))
            twice == ret.rest = SubSeq(last.rnd, 2 * f.N + 1, Len(last.rnd))
        IN  /\ ret.err = ""
            /\ spec.advantage = spec.disadvantage => (ret.result.result = r1 /\ once)
            /\ (spec.advantage /\ ~spec.disadvantage) =>
                   (ret.result.result = Max(r1, r2) /\ twice)
            /\ (spec.disadvantage /\ ~spec.advantage) =>
                   (ret.result.result = Min(r1, r2) /\ twice)

\* C25 witness: 2d3+1 with both flags set threw 1 and 2 for a total of 4
\* and left the two threes, which advantage would have taken, unthrown.
C25_Witness ==
    /\ Returned("execute_roll")
    /\ plan_in.spec.dice = <<"2", "d", "3", "+", "1">>
    /\ plan_in.spec.advantage /\ plan_in.spec.disadvantage
    /\ last.rnd = <<1, 2, 3, 3>>
    /\ ret.err = ""
    /\ ret.result.result = 4
    /\ ret.rest = <<3, 3>>

\* C29: is_empty and peek leave the queue as it is, and with it the sequence
\* of actions the following dequeues return; peek returns the action the
\* next dequeue returns, which is None iff is_empty is true.
C29_ReadersDoNotMutate ==
    [][(QIsEmpty \/ QPeek) =>
          /\ Q' = Q
          /\ DrainOrder(Q') = DrainOrder(Q)
          /\ last'.op = "is_empty" => ret' = BoolV(DrainOrder(Q) = <<>>)
          /\ last'.op = "peek" =>
                 /\ ret' = dequeue(Q').ret
                 /\ ret' = None <=> is_empty(Q')]_vars

\* C29 witness: peek has returned the reaction that arrived last of three
\* actions; all three are still held and the reaction is dequeued next.
C29_Witness ==
    /\ last # None /\ last.t = "call" /\ last.op = "peek"
    /\ qsize(Q) = 3
    /\ Len(arrival) = 3
    /\ arrival[1].priority = 0
    /\ arrival[2].priority = REACTION_PRIORITY
    /\ ret = arrival[2]
    /\ DrainOrder(Q) = <<arrival[2], arrival[3], arrival[1]>>

(***************************************************************************)
(* ClientSpec: llm.client.OllamaClient.generate, one step per pass of its  *)
(* retry loop, called directly or by GMOracle.interpret_action from        *)
(* _resolve_action.                                                        *)
(*   pc = "generate"  inside the for loop of generate                      *)
(*   pc = "resolve"   generate has left interpret_action, inside the try   *)
(*                    block of _resolve_action                             *)
(* iterations is the number of attempts made, plan_in the call, ret what   *)
(* generate returned or raised, last.log what each attempt met.            *)
(***************************************************************************)
MAX_RETRIES == 3
MaxCalls == 2           \* bound: generate calls in ClientSpec

\* what one attempt meets: content that parses into the response format,
\* content that does not, or an exception of self._client.chat
ChatOutcomes == {"valid", "invalid", "ResponseError", "TimeoutError"}

Return(value) == [t |-> "return", value |-> value, err |-> ""]
Reraise(e) == [t |-> "raise", value |-> None, err |-> e]
NextAttempt == [t |-> "continue", value |-> None, err |-> ""]

\* mutant of generate_attempt: the first failure is raised
generate_attempt_hasty(attempt, structured, outcome) ==
    IF outcome \in {"ResponseError", "TimeoutError"} THEN Reraise(outcome)
    ELSE IF ~structured THEN Return("content")
    ELSE IF outcome = "valid" THEN Return("model")
    ELSE Reraise("ValueError")

\* one pass of the for loop, attempt in 1..MAX_RETRIES
generate_attempt(attempt, structured, outcome) ==
    IF outcome \in {"ResponseError", "TimeoutError"}
    THEN IF attempt = MAX_RETRIES THEN Reraise(outcome) ELSE NextAttempt
    ELSE IF ~structured THEN Return("content")
    ELSE IF outcome = "valid" THEN Return("model")
    ELSE IF attempt = MAX_RETRIES THEN Reraise("ValueError") ELSE NextAttempt

GenerateCalls ==
    {[op |-> "generate", structured |-> TRUE, via |-> "interpret_action"]}
    \cup {[op |-> "generate", structured |-> b, via |-> "direct"] : b \in BOOLEAN}

ClientInit ==
    /\ _queues = ActionQueue.queues
    /\ _priorities = ActionQueue.priorities
    /\ narration_buffer = <<>>
    /\ turn_based = FALSE
    /\ gs = InitialState
    /\ pc = "idle"
    /\ iterations = 0
    /\ enemies = <<>>
    /\ inputs = 0
    /\ output = None
    /\ loud = 0
    /\ uuids = 0
    /\ oracle = "free"
    /\ last = None
    /\ ret = None
    /\ arrival = <<>>
    /\ plan_in = None
    /\ resolution = None

\* generate is called
GGenerate(call) ==
    /\ pc = "idle"
    /\ inputs < MaxCalls
    /\ inputs' = inputs + 1
    /\ plan_in' = call
    /\ pc' = "generate"
    /\ iterations' = 0
    /\ ret' = None
    /\ last' = [t |-> "generate", log |-> <<>>, caught |-> FALSE]
    /\ UNCHANGED <<qvars, narration_buffer, turn_based, gs, enemies, output, arrival,
                   resolution, loud, uuids, oracle>>

\* one attempt: generate goes on, returns or raises
GAttempt ==
    /\ pc = "generate"
    /\ iterations < MAX_RETRIES
    /\ \E outcome \in ChatOutcomes :
          LET passed(r) ==
                  /\ ret' = IF r.t = "continue" THEN None ELSE r
                  /\ pc' = IF r.t = "continue" THEN "generate"
                            ELSE IF plan_in.via = "interpret_action" THEN "resolve"
                            ELSE "idle"
          IN  /\ passed(generate_attempt(iterations + 1, plan_in.structured, outcome))
              /\ last' = [last EXCEPT !.log = Append(@, outcome)]
    /\ iterations' = iterations + 1
    /\ UNCHANGED <<qvars, narration_buffer, turn_based, gs, enemies, inputs, output,
                   arrival, plan_in, resolution, loud, uuids, oracle>>

\* _resolve_action goes on with what interpret_action returned or raised
GResolve ==
    /\ pc = "resolve"
    /\ LET ans == IF ret.t = "raise" THEN Answer("fail", None, FALSE, 0)
                  ELSE Answer("plan", WaitPlan("player"), FALSE, 0)
           resolved(r) ==
               /\ narration_buffer' = r.buffer
               /\ gs' = r.state
               /\ SetQ(r.q)
       IN  resolved(_resolve_action(Action(ActionId(inputs), "player", "player input", 0),
                                    gs, Q, narration_buffer, ans, <<>>))
    /\ pc' = "idle"
    /\ last' = [last EXCEPT !.caught = (ret.t = "raise")]
    /\ UNCHANGED <<turn_based, iterations, enemies, inputs, output, ret, arrival,
                   plan_in, resolution, loud, uuids, oracle>>

ClientNext ==
    \/ \E call \in GenerateCalls : GGenerate(call)
    \/ GAttempt
    \/ GResolve

ClientSpec == ClientInit /\ [][ClientNext]_vars

\* the attempt that met `outcome` failed
Failed(outcome, structured) ==
    \/ outcome \in {"ResponseError", "TimeoutError"}
    \/ structured /\ outcome = "invalid"

\* the exception a failed attempt leaves
FailureOf(outcome) == IF outcome = "invalid" THEN "ValueError" ELSE outcome

\* C30: generate makes at most MAX_RETRIES = 3 attempts; it returns at the
\* first attempt that succeeds, goes on after a failed attempt while
\* attempts remain, and raises the third failure; raised inside
\* interpret_action, the failure is caught by _resolve_action, which
\* appends one error fragment.
C30_BoundedRetries ==
    (last # None /\ last.t = "generate") =>
        LET log == last.log
            n   == Len(log)
        IN  /\ MAX_RETRIES = 3
            /\ n = iterations /\ n <= MAX_RETRIES
            /\ \A i \in 1..(n - 1) : Failed(log[i], plan_in.structured)
            /\ pc = "generate" =>
                   /\ ret = None /\ n < MAX_RETRIES
                   /\ \A i \in 1..n : Failed(log[i], plan_in.structured)
            /\ (pc # "generate" /\ ret.t = "return") =>
                   ~Failed(log[n], plan_in.structured)
            /\ (pc # "generate" /\ ret.t = "raise") =>
                   /\ n = MAX_RETRIES
                   /\ Failed(log[n], plan_in.structured)
                   /\ ret.err = FailureOf(log[n])
            /\ (pc = "idle" /\ plan_in.via = "interpret_action" /\ ret.t = "raise") =>
                   /\ last.caught
                   /\ narration_buffer # <<>>
                   /\ narration_buffer[Len(narration_buffer)].t = "error"
            /\ ErrorCount(narration_buffer) <= inputs

\* C30 witness: called by interpret_action, generate met a transport error,
\* content that did not parse and a timeout; it raised the timeout, and
\* _resolve_action narrated the error.
C30_Witness ==
    /\ pc = "idle"
    /\ last # None /\ last.t = "generate"
    /\ last.log = <<"ResponseError", "invalid", "TimeoutError">>
    /\ plan_in.via = "interpret_action"
    /\ ret = Reraise("TimeoutError")
    /\ last.caught
    /\ narration_buffer = <<ErrorFragment("OracleError")>>

(***************************************************************************)
(* GraphSpec: storage.graph.world_graph.WorldGraph driven by arbitrary     *)
(* calls.  gs holds the MultiDiGraph:                                      *)
(*   node_type  node id -> its node_type attribute (the domain is the      *)
(*              set of nodes)                                              *)
(*   succ       node id -> its successors, in the order the adjacency      *)
(*              got them                                                   *)
(*   pred       node id -> its predecessors, in that order                 *)
(*   keyed      <<source, target>> -> the edge_type of each parallel edge, *)
(*              in key order                                               *)
(* ret is what the last call returned, last the call.                      *)
(***************************************************************************)
MaxEdges == 2           \* bound: edges held by the graph in GraphSpec

EntityNodes == {"goblin_01", "merchant_01"}
RoomNodes == {"room_corridor", "room_treasure"}
GraphIds == EntityNodes \cup RoomNodes

LOCATED_IN == "located_in"
GUARDS == "guards"

\* WorldGraph(): an empty MultiDiGraph
WorldGraph ==
    [node_type |-> <<>>,
     succ      |-> [n \in GraphIds |-> <<>>],
     pred      |-> [n \in GraphIds |-> <<>>],
     keyed     |-> [p \in GraphIds \X GraphIds |-> <<>>]]

has_node(g, node_id) == node_id \in DOMAIN g.node_type

\* MultiDiGraph.add_node: a new node, or new attributes for the node there is
add_node(g, node_id, node_type) ==
    [g EXCEPT !.node_type = (node_id :> node_type) @@ @]

Without(s, x) == SelectSeq(s, LAMBDA y : y # x)

\* MultiDiGraph.remove_node: the node goes with every edge from and to it
remove_node(g, node_id) ==
    IF ~has_node(g, node_id) THEN [g |-> g, ret |-> FALSE]
    ELSE [g |-> [node_type |-> [n \in DOMAIN g.node_type \ {node_id} |-> g.node_type[n]],
                 succ  |-> [n \in GraphIds |->
                               IF n = node_id THEN <<>> ELSE Without(g.succ[n], node_id)],
                 pred  |-> [n \in GraphIds |->
                               IF n = node_id THEN <<>> ELSE Without(g.pred[n], node_id)],
                 keyed |-> [p \in GraphIds \X GraphIds |->
                               IF node_id \in {p[1], p[2]} THEN <<>> ELSE g.keyed[p]]],
          ret |-> TRUE]

has_edge(g, source_id, target_id) == g.keyed[<<source_id, target_id>>] # <<>>

\* add_edge: None when a node is missing, else one more parallel edge; the
\* adjacency gets the target when this is the first edge of the pair
add_edge(g, source_id, target_id, edge_type) ==
    IF ~has_node(g, source_id) \/ ~has_node(g, target_id) THEN g
    ELSE [g EXCEPT
            !.succ[source_id] = IF has_edge(g, source_id, target_id) THEN @
                                ELSE Append(@, target_id),
            !.pred[target_id] = IF has_edge(g, source_id, target_id) THEN @
                                ELSE Append(@, source_id),
            !.keyed[<<source_id, target_id>>] = Append(@, edge_type)]

\* remove_edge(source_id, target_id, edge_type): every parallel edge of
\* that type goes; the adjacency loses the target with the last edge
remove_edge(g, source_id, target_id, edge_type) ==
    IF ~has_edge(g, source_id, target_id) THEN g
    ELSE LET rest == Without(g.keyed[<<source_id, target_id>>], edge_type)
         IN  [g EXCEPT
                !.keyed[<<source_id, target_id>>] = rest,
                !.succ[source_id] = IF rest = <<>> THEN Without(@, target_id) ELSE @,
                !.pred[target_id] = IF rest = <<>> THEN Without(@, source_id) ELSE @]

\* the far ends of the parallel edges of one type between a pair: one per edge
Ends(end, types, edge_type) ==
    [k \in 1..Len(SelectSeq(types, LAMBDA t : t = edge_type)) |-> end]

\* get_outgoing_edges(node_id, edge_type): the targets, successor by
\* successor, one entry per matching edge
RECURSIVE outgoing_from(_, _, _, _)
outgoing_from(g, node_id, edge_type, i) ==
    IF i > Len(g.succ[node_id]) THEN <<>>
    ELSE Ends(g.succ[node_id][i], g.keyed[<<node_id, g.succ[node_id][i]>>], edge_type)
         \o outgoing_from(g, node_id, edge_type, i + 1)

get_outgoing_edges(g, node_id, edge_type) ==
    IF ~has_node(g, node_id) THEN <<>> ELSE outgoing_from(g, node_id, edge_type, 1)

RECURSIVE incoming_to(_, _, _, _)
incoming_to(g, node_id, edge_type, i) ==
    IF i > Len(g.pred[node_id]) THEN <<>>
    ELSE Ends(g.pred[node_id][i], g.keyed[<<g.pred[node_id][i], node_id>>], edge_type)
         \o incoming_to(g, node_id, edge_type, i + 1)

get_incoming_edges(g, node_id, edge_type) ==
    IF ~has_node(g, node_id) THEN <<>> ELSE incoming_to(g, node_id, edge_type, 1)

add_room(g, room_id) == add_node(g, room_id, "room")

\* room_id left out (None): `if room_id and ...` is false
NoRoom == ""

\* add_entity(entity_id, name, room_id=...): placed when the room is a node
add_entity(g, entity_id, room_id) ==
    LET added == add_node(g, entity_id, "entity")
    IN  IF room_id # NoRoom /\ has_node(added, room_id)
        THEN add_edge(added, entity_id, room_id, LOCATED_IN)
        ELSE added

\* the loop of move_entity over current_locations
RECURSIVE remove_locations(_, _, _, _)
remove_locations(g, entity_id, current_locations, i) ==
    IF i > Len(current_locations) THEN g
    ELSE remove_locations(remove_edge(g, entity_id, current_locations[i], LOCATED_IN),
                          entity_id, current_locations, i + 1)

\* mutant of move_entity: the existing location edges stay
move_entity_additive(g, entity_id, new_room_id) ==
    IF ~has_node(g, entity_id) \/ ~has_node(g, new_room_id)
    THEN [g |-> g, ret |-> FALSE]
    ELSE [g |-> add_edge(g, entity_id, new_room_id, LOCATED_IN), ret |-> TRUE]

move_entity(g, entity_id, new_room_id) ==
    IF ~has_node(g, entity_id) \/ ~has_node(g, new_room_id)
    THEN [g |-> g, ret |-> FALSE]
    ELSE LET current_locations == get_outgoing_edges(g, entity_id, LOCATED_IN)
             cleared == remove_locations(g, entity_id, current_locations, 1)
         IN  [g |-> add_edge(cleared, entity_id, new_room_id, LOCATED_IN), ret |-> TRUE]

get_entity_location(g, entity_id) ==
    LET locations == get_outgoing_edges(g, entity_id, LOCATED_IN)
    IN  IF locations # <<>> THEN StrV(locations[1]) ELSE None

get_entities_in_room(g, room_id) == get_incoming_edges(g, room_id, LOCATED_IN)

\* number of edges of the graph
EdgeCount(g) == SumLen(g.keyed, GraphIds \X GraphIds)

GraphInit ==
    /\ _queues = ActionQueue.queues
    /\ _priorities = ActionQueue.priorities
    /\ narration_buffer = <<>>
    /\ turn_based = FALSE
    /\ gs = WorldGraph
    /\ pc = "idle"
    /\ iterations = 0
    /\ enemies = <<>>
    /\ inputs = 0
    /\ output = None
    /\ loud = 0
    /\ uuids = 0
    /\ oracle = "free"
    /\ last = None
    /\ ret = None
    /\ arrival = <<>>
    /\ plan_in = None
    /\ resolution = None

\* a call of the WorldGraph API that leaves graph g and returns r
GraphCall(op, arg, g, r) ==
    /\ EdgeCount(g) <= MaxEdges
    /\ gs' = g
    /\ ret' = r
    /\ last' = [t |-> "call", op |-> op, arg |-> arg]
    /\ UNCHANGED <<qvars, narration_buffer, turn_based, pc, iterations, enemies, inputs,
                   output, arrival, plan_in, resolution, loud, uuids, oracle>>

WAddRoom(room_id) ==
    GraphCall("add_room", <<room_id>>, add_room(gs, room_id), None)

WAddEntity(entity_id, room_id) ==
    GraphCall("add_entity", <<entity_id, room_id>>, add_entity(gs, entity_id, room_id), None)

WAddEdge(source_id, target_id) ==
    GraphCall("add_edge", <<source_id, target_id>>,
              add_edge(gs, source_id, target_id, GUARDS), None)

WRemoveNode(node_id) ==
    LET removed(r) == GraphCall("remove_node", <<node_id>>, r.g, BoolV(r.ret))
    IN  removed(remove_node(gs, node_id))

WMoveEntity(entity_id, new_room_id) ==
    LET moved(r) == GraphCall("move_entity", <<entity_id, new_room_id>>, r.g, BoolV(r.ret))
    IN  moved(move_entity(gs, entity_id, new_room_id))

GraphNext ==
    \/ \E room_id \in RoomNodes : WAddRoom(room_id)
    \/ \E entity_id \in EntityNodes, room_id \in RoomNodes \cup {NoRoom} :
          WAddEntity(entity_id, room_id)
    \/ \E source_id \in EntityNodes, target_id \in GraphIds : WAddEdge(source_id, target_id)
    \/ \E node_id \in GraphIds : WRemoveNode(node_id)
    \/ \E entity_id \in GraphIds, new_room_id \in GraphIds :
          WMoveEntity(entity_id, new_room_id)

GraphSpec == GraphInit /\ [][GraphNext]_vars

\* x occurs in sequence s
In(x, s) == \E i \in 1..Len(s) : s[i] = x

\* C31: after move_entity(e, r) returns True, get_entity_location(e) is r,
\* e is in get_entities_in_room(r), once, and in the entity list of no
\* other node; move_entity returns False and leaves the graph as it was
\* when e or r is not a node of the graph.
C31_MovedToExactlyOneRoom ==
    [][last'.op = "move_entity" =>
          LET e == last'.arg[1]
              r == last'.arg[2]
          IN  /\ ret'.v <=> (has_node(gs, e) /\ has_node(gs, r))
              /\ ret'.v =>
                    /\ get_entity_location(gs', e) = StrV(r)
                    /\ In(e, get_entities_in_room(gs', r))
                    /\ Count(get_entities_in_room(gs', r), e) = 1
                    /\ \A q \in GraphIds \ {r} : ~In(e, get_entities_in_room(gs', q))
              /\ ~ret'.v => gs' = gs]_vars

\* C31 witness: the goblin, which guards the corridor, has been moved to the
\* treasure room and is in the corridor's entity list no more.
C31_Witness ==
    /\ last # None /\ last.t = "call" /\ last.op = "move_entity"
    /\ last.arg = <<"goblin_01", "room_treasure">>
    /\ ret = BoolV(TRUE)
    /\ gs.keyed[<<"goblin_01", "room_corridor">>] = <<GUARDS>>
    /\ get_entity_location(gs, "goblin_01") = StrV("room_treasure")
    /\ get_entities_in_room(gs, "room_corridor") = <<>>

(***************************************************************************)
(* The enemy phase and the order of the phases of one resolution (Spec)    *)
(***************************************************************************)
\* the occupant with this id has hp > 0 in `state`
Living(state, entity_id) ==
    LET occ == state.location.v.occupants
    IN  /\ occ.t = "list"
        /\ \E i \in DOMAIN occ.v :
              /\ occ.v[i].t = "obj"
              /\ occ.v[i].v.id = StrV(entity_id)
              /\ hp_positive(occ.v[i]) = Ok(TRUE)

\* an enemy's intent has been generated and enqueued by this step
IntentEnqueued == pc = "enemy_loop" /\ pc' = "enemy_drain"

\* C32: in the enemy phase an entity whose hp is <= 0 when its turn comes
\* gets no intent generated and no action enqueued.
C32_OnlyLivingAct ==
    [][IntentEnqueued => Living(gs, Head(enemies))]_vars

\* this step is one pass of the while loop of _process_queue: an action has
\* been dequeued and resolved
Resolving == last'.t = "resolve" /\ iterations' = iterations + 1

\* C33: in the resolution of one action the plan is executed only once the
\* intent is interpreted, changes are applied only once the plan is
\* executed, and reactions are described and enqueued only once every
\* pending change is applied; the reactions are in the queue, described,
\* when the step ends, so the next action is dequeued after them and every
\* reaction is interpreted in a state that holds the triggering action's
\* changes.
C33_PhasesInOrder ==
    [][Resolving =>
          LET action == last'.action
              res    == action.resolution
              d      == dequeue(Q)
          IN  /\ action.id = d.ret.id
              /\ res # None => (last'.interp = "plan" /\ action.plan # None)
              /\ last'.applied > 0 => (res # None /\ res.status = "RESOLVED")
              /\ last'.enqueued > 0 =>
                     /\ res # None /\ res.status = "RESOLVED"
                     /\ last'.applied = Len(res.pending_state_changes)
                     /\ FirstFailing(gs, res.pending_state_changes) = 0
                     /\ gs' = AfterFirst(gs, res.pending_state_changes,
                                         Len(res.pending_state_changes))
                     /\ \A i \in 1..last'.enqueued :
                            /\ Held(Q', Described(res.triggered_reactions[i])) > 0
                            /\ get_entity(gs', res.triggered_reactions[i].owner_id).err = FALSE
              /\ last'.enqueued = 0 => Q' = d.q]_vars

\* C33 witness: the player's curse has been resolved: the goblin's hp is 0
\* in the state, and the goblin's reaction is the one action in the queue.
C33_Witness ==
    /\ Resolved
    /\ last.action.plan = CursePlan("player")
    /\ last.applied = 1 /\ last.enqueued = 1
    /\ gs.location.v.occupants.v[1].v.hp = IntV(0)
    /\ qsize(Q) = 1
    /\ peek(Q).owner_id = "goblin_1"
    /\ peek(Q).priority = REACTION_PRIORITY

\* C34: the fragment '[The chaos becomes too complex to follow...]' is
\* appended by a step exactly when that step ends a drain that has resolved
\* 50 actions and whose queue still holds an action; a drain that has
\* resolved 50 actions and finds the queue empty ends with the buffer as
\* it was.
C34_CapOnlyWhenCutOff ==
    [][/\ Count(narration_buffer', CapFragment) > Count(narration_buffer, CapFragment)
          <=> (InDrain /\ pc' # pc /\ ~is_empty(Q) /\ iterations = max_iterations)
       /\ (InDrain /\ pc' # pc /\ is_empty(Q)) =>
              /\ narration_buffer' = narration_buffer
              /\ last' = Step("drained")
       /\ (InDrain /\ pc' # pc /\ ~is_empty(Q)) =>
              /\ narration_buffer' = Append(narration_buffer, CapFragment)
              /\ last' = Step("capped")]_vars

\* C34 witness: a drain has resolved exactly 50 actions, the 50th left the
\* queue empty, and the buffer holds no cap fragment.
C34_Witness ==
    /\ InDrain
    /\ iterations = max_iterations
    /\ Resolved
    /\ is_empty(Q)
    /\ ~Has(narration_buffer, CapFragment)

\* the number of roll specs conditional_rolls holds
ConditionalTotal(plan) == SumLen(plan.conditional_rolls, DOMAIN plan.conditional_rolls)

\* how many results of the resolution were rolled for this spec
TimesRolled(res, spec) ==
    Cardinality({j \in DOMAIN res.roll_results : res.roll_results[j].spec = spec})

\* C35: execute_plan returns for every plan, also when keys of
\* conditional_rolls are indices the working list only gets by growing:
\* every required roll is made once, the rolls of each conditional entry
\* at most once, there are at most len(required_rolls) plus the number of
\* conditional specs roll results, and one fragment per result.
C35_RollsBounded ==
    (resolution # None /\ plan_in \in IndexedPlans \cup PairedPlans) =>
        LET conditional == plan_in.conditional_rolls
        IN  /\ ret = Applied("")
            /\ resolution.status = "RESOLVED"
            /\ Len(resolution.roll_results)
                   <= Len(plan_in.required_rolls) + ConditionalTotal(plan_in)
            /\ Len(resolution.narration_fragments) = Len(resolution.roll_results)
            /\ \A i \in DOMAIN plan_in.required_rolls :
                   TimesRolled(resolution, plan_in.required_rolls[i]) = 1
            /\ \A k \in DOMAIN conditional : \A j \in DOMAIN conditional[k] :
                   TimesRolled(resolution, conditional[k][j]) <= 1

\* C35 witness: one required roll and two conditional rolls under each of
\* the keys 0 and 1; the required roll and the first roll spliced for key 0,
\* which stands at index 1, succeeded, so all five rolls were made.
C35_Witness ==
    /\ resolution # None
    /\ plan_in \in PairedPlans
    /\ DOMAIN plan_in.conditional_rolls = {0, 1}
    /\ Len(resolution.roll_results) = 5
    /\ [j \in 1..5 |-> resolution.roll_results[j].spec]
           = <<Required(0), Conditional(0), Conditional(1), Follow(1), Follow(0)>>

\* C36: when the k-th pending change of an executed plan raises, the k - 1
\* changes before it stay applied, so the state differs from the one before
\* the action wherever they took effect, the later changes are not
\* applied, and none of the triggered reactions is enqueued.
C36_NoRollback ==
    [][Resolving =>
          LET res     == last'.action.resolution
              changes == res.pending_state_changes
              k       == FirstFailing(gs, changes)
          IN  (res # None /\ res.status = "RESOLVED" /\ k > 0) =>
                 /\ last'.err # ""
                 /\ last'.applied = k - 1
                 /\ gs' = AfterFirst(gs, changes, k - 1)
                 /\ AfterFirst(gs, changes, k - 1) # gs => gs' # gs
                 /\ last'.enqueued = 0
                 /\ \A i \in DOMAIN res.triggered_reactions :
                        Held(Q', Described(res.triggered_reactions[i]))
                            = Held(Q, Described(res.triggered_reactions[i]))]_vars

\* C36 witness: the player's batch of three failed at its second change, an
\* add to a list; the first change stands (STR is 1), the third is not
\* applied (the goblin keeps its hp), and the goblin's triggered reaction
\* is not in the queue.
C36_Witness ==
    /\ Resolved
    /\ last.action.plan = BotchedPlan("player", "add")
    /\ last.err # ""
    /\ last.applied = 1 /\ last.enqueued = 0
    /\ Len(last.action.resolution.triggered_reactions) = 1
    /\ gs.player.v.attributes.v.STR = IntV(1)
    /\ gs.location.v.occupants.v[1].v.hp = IntV(GoblinHp)
    /\ is_empty(Q)

(***************************************************************************)
(* The text returned by process_player_input (Spec)                        *)
(***************************************************************************)
\* C37: the returned text is the composed narration followed by the
\* combat-result line when combat has ended, and by nothing when the player
\* is alive and hostile entities remain.
C37_ResultLineOnlyAtEnd ==
    (output # None /\ output.t = "text") =>
        /\ output.combat_result # None => output.appended = output.combat_result.v
        /\ output.combat_result = None => output.appended = ""

\* sequence s is the beginning of sequence t
IsPrefix(s, t) == Len(s) <= Len(t) /\ SubSeq(t, 1, Len(s)) = s

\* what a step has appended to a buffer it has only appended to
Appended == SubSeq(narration_buffer', Len(narration_buffer) + 1, Len(narration_buffer'))

\* the fragments of the rolls of an executed plan, in roll order
RollFragments(res) ==
    IF res # None /\ res.status = "RESOLVED"
    THEN [i \in 1..Len(res.roll_results) |-> _narrate_roll(res.roll_results[i])]
    ELSE <<>>

\* C38: process_player_input empties the buffer on entry; until it returns
\* every step only appends to the buffer, a resolving step the fragments
\* of the action's rolls in roll order and then at most one error or
\* explanation fragment; compose_narration is handed the buffer as it
\* stands, so the list holds the fragments of this call only, in the order
\* the actions were resolved.
C38_FragmentsOfThisCall ==
    [][/\ (~Running /\ Running') => narration_buffer' = <<>>
       /\ Running => IsPrefix(narration_buffer, narration_buffer')
       /\ Resolving =>
              Appended = RollFragments(last'.action.resolution)
                            \o (IF last'.err # "" THEN <<ErrorFragment(last'.err)>>
                                ELSE IF last'.interp = "invalid" THEN <<ExplainFragment>>
                                ELSE <<>>)
       /\ (pc = "narrate" /\ pc' = "idle") =>
              /\ output'.narration = narration_buffer
              /\ narration_buffer' = narration_buffer]_vars

\* C38 witness: the second call has returned; both goblins were dead when
\* it began, its one action was an attack that hit, and the list handed to
\* the narrator holds the attack fragment and the damage fragment, in that
\* order, and nothing else.
C38_Witness ==
    /\ pc = "idle" /\ inputs = 2
    /\ output # None /\ output.t = "text"
    /\ Len(output.narration) = 2
    /\ output.narration[1].t = "roll" /\ output.narration[1].reason = "attack"
    /\ output.narration[2].t = "roll" /\ output.narration[2].reason = "damage"
    /\ gs.location.v.occupants.v[1].v.hp = IntV(GoblinHp - 2)
    /\ output.combat_result = StrV("VICTORY")

\* the entity with this id is found and reports a reaction to the pair
Reacts(state, entity_id, action_type, succeeded) ==
    LET found == get_entity(state, entity_id)
    IN  /\ ~found.err
        /\ found.ref # None
        /\ has_reaction_to(Deref(state, found.ref), action_type, succeeded)

C40_PlanLevelChangesOnly ==
    [][Resolving =>
          LET res  == last'.action.resolution
              plan == last'.action.plan
          IN  (res # None /\ res.status = "RESOLVED") =>
                 LET chosen == IF _evaluate_success(res.roll_results)
                               THEN plan.on_success ELSE plan.on_failure
                 IN  /\ res.pending_state_changes = chosen
                     /\ last'.applied <= Len(chosen)
                     /\ gs' = AfterFirst(gs, chosen, last'.applied)
                     /\ chosen = <<>> => gs' = gs
                     /\ \A i \in DOMAIN res.roll_results :
                            res.roll_results[i].state_changes
                                = outcomes_get(res.roll_results[i].spec.outcomes,
                                               res.roll_results[i].outcome)]_vars

\* C40 witness: the player's hex failed; the roll result carries the change
\* that sets the player's hp to 0, the plan has no failure changes, and
\* the player's hp is what it was.
C40_Witness ==
    /\ Resolved
    /\ last.action.plan = HexPlan("player")
    /\ last.err = ""
    /\ last.action.resolution.roll_results[1].outcome = "FAILURE"
    /\ last.action.resolution.roll_results[1].state_changes
           = <<StateChange("player", <<"hp">>, "set", IntV(0))>>
    /\ last.action.resolution.pending_state_changes = <<>>
    /\ gs = InitialState
====
